---- MODULE Spec2Model ----
(***************************************************************************)
(* PythonOpenGLBlog: the batch renderer (src/src/graphics/batch_renderer.py)*)
(* as a state machine.  A BatchRenderer queues copies of caller geometry,   *)
(* build() transforms and merges them and uploads one vertex/index buffer,  *)
(* flush() draws it.                                                        *)
(*                                                                          *)
(* numpy arrays are heap objects with an identity (a reference) and a       *)
(* value, so that copying and aliasing differ.  The OpenGL context is the   *)
(* set of live object names plus the calls the last operation issued (what  *)
(* a mock of `gl`, reset before each call, records).                        *)
(*                                                                          *)
(* Floats: every array the callers hand over holds small integers (exact in *)
(* float32).  A computed float is a fraction <<n, d>> in lowest terms,      *)
(* d > 0; division by zero gives numpy's inf <<1,0>>, -inf <<-1,0>> and     *)
(* nan <<0,0>>.                                                             *)
(***************************************************************************)
EXTENDS Integers, Sequences, FiniteSets, TLC

\* The longest batch queue explored.
MaxBatches == 2

----------------------------------------------------------------------------
(* Values *)

\* Optional[np.ndarray] as a value: None, or an array.
None == [some |-> FALSE, val |-> <<>>]
Some(a) == [some |-> TRUE, val |-> a]

\* A reference to an array: <<owner, field>>.  Owner 0 is the caller's
\* geometry; owner k > 0 is the copy made for the k-th queued batch.
NoneRef == <<0, "None">>
GeoVertices == <<0, "vertices">>
GeoIndices == <<0, "indices">>
GeoTransform == <<0, "transform">>

\* PrimitiveType(Enum): the values are the GL constants.
PrimitiveType == {"GL_POINTS", "GL_LINES", "GL_TRIANGLES"}

\* 4x4 model matrices, row-major as numpy holds them.
Identity == << <<1,0,0,0>>, <<0,1,0,0>>, <<0,0,1,0>>, <<0,0,0,1>> >>
Translation123 == << <<1,0,0,1>>, <<0,1,0,2>>, <<0,0,1,3>>, <<0,0,0,1>> >>
Projective2 == << <<1,0,0,0>>, <<0,1,0,0>>, <<0,0,1,0>>, <<0,0,0,2>> >>

\* Nx6 vertex arrays (x, y, z, r, g, b).
NoVertices == <<>>
OneVertex == << <<1,2,3, 1,0,0>> >>
Triangle == << <<0,0,0, 1,0,0>>, <<1,0,0, 0,1,0>>, <<0,1,0, 0,0,1>> >>

\* The states of the caller's geometry: its vertex array, its index array and
\* its model matrix.  The caller overwrites them in place.
Geometries ==
    { [vertices |-> NoVertices, indices |-> <<>>,      transform |-> Identity],
      [vertices |-> OneVertex,  indices |-> <<>>,      transform |-> Translation123],
      [vertices |-> Triangle,   indices |-> <<0,1,2>>, transform |-> Identity],
      [vertices |-> Triangle,   indices |-> <<0,2,1>>, transform |-> Projective2] }

----------------------------------------------------------------------------
(* Arithmetic on arrays *)

Abs(i) == IF i < 0 THEN -i ELSE i
Sign(i) == IF i < 0 THEN -1 ELSE IF i > 0 THEN 1 ELSE 0

RECURSIVE Gcd(_, _)
Gcd(a, b) == IF b = 0 THEN a ELSE Gcd(b, a % b)

\* numpy's true division a / w of two floats holding integers.
Div(a, w) ==
    IF w = 0 THEN <<Sign(a), 0>>
    ELSE LET g == Gcd(Abs(a), Abs(w))
         IN <<(Sign(w) * a) \div g, Abs(w) \div g>>

\* A float holding the integer i.
Float(i) == <<i, 1>>

\* The distance between the float32 values next to the integer i: 1 under
\* 2^24 and doubling with each further binary digit.
RECURSIVE Spacing32(_)
Spacing32(i) == IF Abs(i) < 16777216 THEN 1 ELSE 2 * Spacing32(i \div 2)

\* n / d rounded to a multiple of s: to the nearest, and of two equally
\* near to the even multiple (IEEE 754 round-half-to-even).
RoundHalfEven(n, d, s) ==
    IF 2 * (n % (d * s)) < d * s THEN (n \div (d * s)) * s
    ELSE IF 2 * (n % (d * s)) > d * s THEN (n \div (d * s)) * s + s
    ELSE IF (n \div (d * s)) % 2 = 0 THEN (n \div (d * s)) * s
    ELSE (n \div (d * s)) * s + s

\* ndarray.astype(np.float32) of one element.  Defined where the conversion
\* is exact (inf/nan, and dyadic fractions of under 24 significant bits) and
\* from 2^24 on, where it rounds to an integer.
astype_float32(q) ==
    CASE q[2] \in {0, 1, 2, 4, 8, 16} /\ Abs(q[1]) < 16777216 -> q
      [] q[2] > 0 /\ Abs(q[1]) \div q[2] >= 16777216 ->
           <<RoundHalfEven(q[1], q[2], Spacing32(Abs(q[1]) \div q[2])), 1>>

\* The float is a finite one that astype_float32 keeps as it is.
Exact32(q) == q[2] \in {1, 2, 4, 8, 16} /\ Abs(q[1]) < 16777216

RECURSIVE SumSeq(_)
SumSeq(s) == IF s = <<>> THEN 0 ELSE Head(s) + SumSeq(Tail(s))

\* np.concatenate(arrays, axis=0)
RECURSIVE concatenate(_)
concatenate(arrays) ==
    IF arrays = <<>> THEN <<>> ELSE Head(arrays) \o concatenate(Tail(arrays))

\* row . (x, y, z, w)
Dot(row, p) == row[1]*p[1] + row[2]*p[2] + row[3]*p[3] + row[4]*p[4]

----------------------------------------------------------------------------
(* State *)

VARIABLES
    _primitive_type,    \* BatchRenderer._primitive_type
    _batches,           \* BatchRenderer._batches: the queue of RenderBatch
    _vao, _vbo, _ebo,   \* BatchRenderer's GL handles, 0 when none
    _is_dirty,          \* BatchRenderer._is_dirty
    _use_indices,       \* BatchRenderer._use_indices
    _total_vertices,    \* BatchRenderer._total_vertices
    _total_indices,     \* BatchRenderer._total_indices
    heap,               \* the numpy arrays alive: reference -> value
    gl_vaos, gl_bufs,   \* the GL context: live vertex-array and buffer names
    gl_calls,           \* the GL calls issued by the last operation, in order
    last_op,            \* history: the call made last
    added,              \* history: what each queued batch held when added
    ever_indexed,       \* history: some accepted add supplied an index array
    point_geometry,     \* App._point_geometry: a PointGeometry's fields
    rectangle_geometry, \* App._rectangle_geometry: a RectangleGeometry's
    geometry,           \* the geometry whose get_vertex_data() the caller
                        \* hands to add_geometry: its type and the fields
                        \* get_vertex_data reads
    camera_2d,          \* App._camera_2d: a Camera2D's fields
    camera_3d,          \* App._camera_3d: a Camera3D's fields
    mouse,              \* App._mouse: a MouseController's fields
    controller,         \* App._camera_controller: a CameraController's
    camera_calls,       \* the calls made on the cameras in the last
                        \* operation, in order: the call itself, or those
                        \* the controller made in the frame
    polled,             \* history: the mouse as the last update() read it
    scroll_offsets,     \* history: the offsets _scroll_callback received
                        \* since the last MouseController.update()
    steps               \* history: the number of frames run and of calls
                        \* made on the cameras and their controller

renderer == <<_primitive_type, _batches, _vao, _vbo, _ebo, _is_dirty,
              _use_indices, _total_vertices, _total_indices>>
\* What is not the batch renderer's.
geometries == <<point_geometry, rectangle_geometry, geometry>>
cameras == <<camera_2d, camera_3d, mouse, controller, camera_calls, polled,
             scroll_offsets,
             steps>>
scene == <<geometries, cameras>>
vars == <<renderer, heap, gl_vaos, gl_bufs, gl_calls, last_op, added,
          ever_indexed, scene>>

\* The renderer, the heap and the GL context as one value, so that a method
\* can call another.  gl_calls starts empty at each operation.
Self ==
    [ _primitive_type |-> _primitive_type, _batches |-> _batches,
      _vao |-> _vao, _vbo |-> _vbo, _ebo |-> _ebo,
      _is_dirty |-> _is_dirty, _use_indices |-> _use_indices,
      _total_vertices |-> _total_vertices, _total_indices |-> _total_indices,
      heap |-> heap, gl_vaos |-> gl_vaos, gl_bufs |-> gl_bufs,
      gl_calls |-> <<>> ]

\* The variables take the value s after the operation.
Becomes(s) ==
    /\ _primitive_type' = s._primitive_type
    /\ _batches' = s._batches
    /\ _vao' = s._vao
    /\ _vbo' = s._vbo
    /\ _ebo' = s._ebo
    /\ _is_dirty' = s._is_dirty
    /\ _use_indices' = s._use_indices
    /\ _total_vertices' = s._total_vertices
    /\ _total_indices' = s._total_indices
    /\ heap' = s.heap
    /\ gl_vaos' = s.gl_vaos
    /\ gl_bufs' = s.gl_bufs
    /\ gl_calls' = s.gl_calls

---------------------------------------------------------------------------------------------------------------------------------------------------
(* The GL context *)

\* One recorded call: the function, its target or mode, its number (a name, a
\* count, a size in bytes) and the data handed over.
Call(fn, what, n, data) == [fn |-> fn, what |-> what, n |-> n, data |-> data]

Issue(s, c) == [s EXCEPT !.gl_calls = Append(@, c)]

\* glGen*: an unused name, never 0.
FreshName(live) == CHOOSE n \in 1..(Cardinality(live) + 1) :
                       n \notin live /\ \A m \in 1..(n - 1) : m \in live

glDeleteBuffers(s, name) ==
    [Issue(s, Call("glDeleteBuffers", "", name, <<>>))
       EXCEPT !.gl_bufs = @ \ {name}]

glDeleteVertexArrays(s, name) ==
    [Issue(s, Call("glDeleteVertexArrays", "", name, <<>>))
       EXCEPT !.gl_vaos = @ \ {name}]

glGenVertexArrays(s, name) ==
    [Issue(s, Call("glGenVertexArrays", "", name, <<>>))
       EXCEPT !.gl_vaos = @ \cup {name}]

glGenBuffers(s, name) ==
    [Issue(s, Call("glGenBuffers", "", name, <<>>))
       EXCEPT !.gl_bufs = @ \cup {name}]

glBindVertexArray(s, name) ==
    Issue(s, Call("glBindVertexArray", "", name, <<>>))

----------------------------------------------------------------------------
(* BatchRenderer *)

\* RenderBatch(vertices, indices, transform, vertex_count): the dataclass and
\* its defaults.
RenderBatch(vertices, indices, transform, vertex_count) ==
    [ vertices |-> vertices, indices |-> indices, transform |-> transform,
      vertex_offset |-> 0, vertex_count |-> vertex_count,
      index_offset |-> 0, index_count |-> 0 ]

\* cleanup: if self._vbo != 0: glDeleteBuffers; self._vbo = 0
DeleteVbo(s) ==
    IF s._vbo # 0 THEN [glDeleteBuffers(s, s._vbo) EXCEPT !._vbo = 0] ELSE s

\* cleanup: if self._ebo != 0: glDeleteBuffers; self._ebo = 0
DeleteEbo(s) ==
    IF s._ebo # 0 THEN [glDeleteBuffers(s, s._ebo) EXCEPT !._ebo = 0] ELSE s

\* cleanup: if self._vao != 0: glDeleteVertexArrays; self._vao = 0
DeleteVao(s) ==
    IF s._vao # 0 THEN [glDeleteVertexArrays(s, s._vao) EXCEPT !._vao = 0]
                  ELSE s

\* BatchRenderer.cleanup
cleanup(s) == DeleteVao(DeleteEbo(DeleteVbo(s)))

\* _create_buffers: self._vao = glGenVertexArrays(1); glBindVertexArray
CreateVao(s) ==
    glBindVertexArray(
        [glGenVertexArrays(s, FreshName(s.gl_vaos))
           EXCEPT !._vao = FreshName(s.gl_vaos)],
        FreshName(s.gl_vaos))

\* _create_buffers: self._vbo = glGenBuffers(1); glBindBuffer; glBufferData
CreateVbo(s, vertices) ==
    Issue(Issue([glGenBuffers(s, FreshName(s.gl_bufs))
                   EXCEPT !._vbo = FreshName(s.gl_bufs)],
                Call("glBindBuffer", "GL_ARRAY_BUFFER", FreshName(s.gl_bufs),
                     <<>>)),
          Call("glBufferData", "GL_ARRAY_BUFFER", Len(vertices) * 24, vertices))

\* _create_buffers: the position attribute (0) and the colour attribute (1)
SetAttributes(s) ==
    Issue(Issue(Issue(Issue(s,
        Call("glEnableVertexAttribArray", "", 0, <<>>)),
        Call("glVertexAttribPointer", "", 0, <<>>)),
        Call("glEnableVertexAttribArray", "", 1, <<>>)),
        Call("glVertexAttribPointer", "", 1, <<>>))

\* _create_buffers: if indices is not None and indices.size > 0: the EBO
CreateEbo(s, indices) ==
    IF indices.some /\ Len(indices.val) > 0
    THEN Issue(Issue([glGenBuffers(s, FreshName(s.gl_bufs))
                        EXCEPT !._ebo = FreshName(s.gl_bufs)],
                     Call("glBindBuffer", "GL_ELEMENT_ARRAY_BUFFER",
                          FreshName(s.gl_bufs), <<>>)),
               Call("glBufferData", "GL_ELEMENT_ARRAY_BUFFER",
                    Len(indices.val) * 4, indices.val))
    ELSE s

\* _create_buffers after its cleanup(): nothing for an empty array, else the
\* VAO, the VBO, the attributes, the EBO, and the unbind.
CreateObjects(s, vertices, indices) ==
    IF Len(vertices) = 0 THEN s
    ELSE glBindVertexArray(
             CreateEbo(SetAttributes(CreateVbo(CreateVao(s), vertices)),
                       indices),
             0)

\* _create_buffers without its cleanup() (a faulty variant).
_create_buffers_leaking(s, vertices, indices) ==
    CreateObjects(s, vertices, indices)

\* BatchRenderer._create_buffers(vertices, indices): vertices an array,
\* indices an Optional array.
_create_buffers(s, vertices, indices) ==
    CreateObjects(cleanup(s), vertices, indices)

\* TransformVertex without the division by w (a faulty variant).
TransformVertex_undivided(v, transform) ==
    << astype_float32(Float(Dot(transform[1], <<v[1], v[2], v[3], 1>>))),
       astype_float32(Float(Dot(transform[2], <<v[1], v[2], v[3], 1>>))),
       astype_float32(Float(Dot(transform[3], <<v[1], v[2], v[3], 1>>))),
       astype_float32(Float(v[4])),
       astype_float32(Float(v[5])),
       astype_float32(Float(v[6])) >>

\* _apply_transform on one vertex: (x, y, z, 1), transform @ it, the first
\* three over the fourth, the colours appended, all as float32.
TransformVertex(v, transform) ==
    << astype_float32(Div(Dot(transform[1], <<v[1], v[2], v[3], 1>>),
                          Dot(transform[4], <<v[1], v[2], v[3], 1>>))),
       astype_float32(Div(Dot(transform[2], <<v[1], v[2], v[3], 1>>),
                          Dot(transform[4], <<v[1], v[2], v[3], 1>>))),
       astype_float32(Div(Dot(transform[3], <<v[1], v[2], v[3], 1>>),
                          Dot(transform[4], <<v[1], v[2], v[3], 1>>))),
       astype_float32(Float(v[4])),
       astype_float32(Float(v[5])),
       astype_float32(Float(v[6])) >>

\* BatchRenderer._apply_transform(vertices, transform), on array values.
_apply_transform(vertices, transform) ==
    IF Len(vertices) = 0 THEN vertices
    ELSE [ k \in 1..Len(vertices) |-> TransformVertex(vertices[k], transform) ]

\* AddOffset with the offset forgotten (a faulty variant).
AddOffset_forgotten(indices, vertex_offset) == indices

\* batch.indices + batch.vertex_offset
AddOffset(indices, vertex_offset) ==
    [ k \in 1..Len(indices) |-> indices[k] + vertex_offset ]

\* _combine_indices: the loop over the batches that have indices.
AdjustedIndices(h, with) ==
    [ k \in 1..Len(with) |->
        AddOffset(h[with[k].indices], with[k].vertex_offset) ]

\* BatchRenderer._combine_indices: an Optional array.  (The cast to uint32
\* changes nothing below 2^32.)
_combine_indices(s) ==
    IF ~s._use_indices THEN None
    ELSE IF \E k \in 1..Len(s._batches) : s._batches[k].indices # NoneRef
         THEN Some(concatenate(AdjustedIndices(s.heap,
                 SelectSeq(s._batches, LAMBDA b : b.indices # NoneRef))))
         ELSE None

\* ndarray.copy(): a new array of the same value, under the reference to.
Copy(h, from, to) == (to :> h[from]) @@ h

\* Enqueue keeping the caller's arrays instead of copies (a faulty variant).
Enqueue_aliasing(s, vertices, indices, transform, k) ==
    [s EXCEPT
       !._use_indices = IF indices # NoneRef THEN TRUE ELSE @,
       !._batches = Append(@,
           [RenderBatch(vertices, indices, transform, Len(s.heap[vertices]))
              EXCEPT !.index_count = IF indices # NoneRef
                                     THEN Len(s.heap[indices]) ELSE @]),
       !._is_dirty = TRUE]

\* add_geometry past the empty check, k the new batch's place in the queue.
Enqueue(s, vertices, indices, transform, k) ==
    [s EXCEPT
       !.heap = Copy(IF indices # NoneRef
                     THEN Copy(Copy(@, vertices, <<k, "vertices">>),
                               indices, <<k, "indices">>)
                     ELSE Copy(@, vertices, <<k, "vertices">>),
                     transform, <<k, "transform">>),
       !._use_indices = IF indices # NoneRef THEN TRUE ELSE @,
       !._batches = Append(@,
           [RenderBatch(<<k, "vertices">>,
                        IF indices # NoneRef THEN <<k, "indices">> ELSE NoneRef,
                        <<k, "transform">>,
                        Len(s.heap[vertices]))
              EXCEPT !.index_count = IF indices # NoneRef
                                     THEN Len(s.heap[indices]) ELSE @]),
       !._is_dirty = TRUE]

\* add_geometry recording the use of indices before the empty check (a faulty
\* variant).
add_geometry_flagging(s, vertices, indices, transform) ==
    IF Len(s.heap[vertices]) = 0
    THEN [s EXCEPT !._use_indices = IF indices # NoneRef THEN TRUE ELSE @]
    ELSE Enqueue(s, vertices, indices, transform, Len(s._batches) + 1)

\* BatchRenderer.add_geometry(vertices, indices, transform): the arguments
\* are references, indices possibly NoneRef.
add_geometry(s, vertices, indices, transform) ==
    IF Len(s.heap[vertices]) = 0 THEN s
    ELSE Enqueue(s, vertices, indices, transform, Len(s._batches) + 1)

\* clear also leaving indexed mode (a faulty variant).
clear_resetting(s) ==
    [s EXCEPT !._batches = <<>>,
              !._is_dirty = TRUE,
              !._use_indices = FALSE,
              !._total_vertices = 0,
              !._total_indices = 0,
              !.heap = [r \in {x \in DOMAIN s.heap : x[1] = 0} |-> s.heap[r]]]

\* clear also releasing the uploaded buffer (a faulty variant).
clear_releasing(s) ==
    [cleanup(s) EXCEPT
              !._batches = <<>>,
              !._is_dirty = TRUE,
              !._total_vertices = 0,
              !._total_indices = 0,
              !.heap = [r \in {x \in DOMAIN s.heap : x[1] = 0} |-> s.heap[r]]]

\* clear() leaving the totals of the last build (a faulty variant).
clear_keeping_totals(s) ==
    [s EXCEPT !._batches = <<>>,
              !._is_dirty = TRUE,
              !.heap = [r \in {x \in DOMAIN s.heap : x[1] = 0} |-> s.heap[r]]]

\* BatchRenderer.clear.  The arrays only the dropped batches referred to die
\* with them.
clear(s) ==
    [s EXCEPT !._batches = <<>>,
              !._is_dirty = TRUE,
              !._total_vertices = 0,
              !._total_indices = 0,
              !.heap = [r \in {x \in DOMAIN s.heap : x[1] = 0} |-> s.heap[r]]]

\* build, step 1: each batch's vertex_offset is the running sum of the
\* vertex_count of the batches before it.
RecordOffsets(s) ==
    [s EXCEPT !._batches =
       [ i \in 1..Len(s._batches) |->
           [s._batches[i] EXCEPT !.vertex_offset =
              SumSeq([ j \in 1..(i - 1) |-> s._batches[j].vertex_count ])] ]]

\* build, steps 1 and 2: the transformed arrays, concatenated.
combined_vertices(s) ==
    concatenate([ i \in 1..Len(s._batches) |->
                    _apply_transform(s.heap[s._batches[i].vertices],
                                     s.heap[s._batches[i].transform]) ])

\* build, step 3: the combined indices, None when indices are not in use.
combined_indices(s) == IF s._use_indices THEN _combine_indices(s) ELSE None

\* build, steps 2 and 3: the totals.
RecordTotals(s) ==
    [s EXCEPT !._total_vertices = Len(combined_vertices(s)),
              !._total_indices =
                  IF s._use_indices
                  THEN IF combined_indices(s).some
                       THEN Len(combined_indices(s).val) ELSE 0
                  ELSE @]

\* build, step 4, and the dirty flag.
Upload(s) ==
    [_create_buffers(s, combined_vertices(s), combined_indices(s))
       EXCEPT !._is_dirty = FALSE]

\* build dropping the batches it merged (a faulty variant).
build_discarding(s) ==
    IF Len(s._batches) = 0 \/ ~s._is_dirty THEN s
    ELSE [Upload(RecordTotals(RecordOffsets(s))) EXCEPT
            !._batches = <<>>,
            !.heap = [r \in {x \in DOMAIN s.heap : x[1] = 0} |-> s.heap[r]]]

\* build ignoring the dirty flag (a faulty variant).
build_always(s) ==
    IF Len(s._batches) = 0 THEN s
    ELSE Upload(RecordTotals(RecordOffsets(s)))

\* BatchRenderer.build
build(s) ==
    IF Len(s._batches) = 0 \/ ~s._is_dirty THEN s
    ELSE Upload(RecordTotals(RecordOffsets(s)))

\* flush: the draw call, indexed or not.
DrawCall(s) ==
    IF s._use_indices /\ s._total_indices > 0
    THEN Issue(s, Call("glDrawElements", s._primitive_type,
                       s._total_indices, <<>>))
    ELSE Issue(s, Call("glDrawArrays", s._primitive_type,
                       s._total_vertices, <<>>))

\* Draw without the check for an empty merged buffer (a faulty variant).
Draw_unguarded(s) ==
    IF s._vao = 0 THEN s
    ELSE glBindVertexArray(DrawCall(glBindVertexArray(s, s._vao)), 0)

\* flush after its build: nothing without a VAO or without vertices.
Draw(s) ==
    IF s._vao = 0 \/ s._total_vertices = 0 THEN s
    ELSE glBindVertexArray(DrawCall(glBindVertexArray(s, s._vao)), 0)

\* flush without the build of a dirty renderer (a faulty variant).
flush_unbuilt(s) == Draw(s)

\* BatchRenderer.flush
flush(s) == Draw(IF s._is_dirty THEN build(s) ELSE s)

\* BatchRenderer.batch_count
batch_count == Len(_batches)

----------------------------------------------------------------------------
(* Geometry: OpenGLBufferManager, GeometryBase, PointGeometry and           *)
(* RectangleGeometry (src/src/graphics/geometry.py).  An object is a record *)
(* of its fields; a method takes and returns the object together with the   *)
(* GL context (gl_vaos, gl_bufs, gl_calls).  Vertex arrays are flat here.   *)

\* The longest point list explored.
MaxPoints == 1

\* The point add_point is called with: (x, y, z, r, g, b).
SamplePoint == <<1, 2, 3, 1, 0, 0>>

\* The sizes set_size is called with: (width, height).
SampleSizes == { <<2, 1>> }

\* The object with the GL context, before a method runs.
WithContext(o) ==
    o @@ [gl_vaos |-> gl_vaos, gl_bufs |-> gl_bufs, gl_calls |-> <<>>]

\* The object's own fields after a method.
Fields(o, like) == [ f \in DOMAIN like |-> o[f] ]

\* The GL context after a method.
ContextBecomes(o) ==
    /\ gl_vaos' = o.gl_vaos
    /\ gl_bufs' = o.gl_bufs
    /\ gl_calls' = o.gl_calls

\* create_buffers: vao = glGenVertexArrays(1); glBindVertexArray(vao)
ManagerVao(o) ==
    glBindVertexArray(
        [glGenVertexArrays(o, FreshName(o.gl_vaos))
           EXCEPT !._vao = FreshName(o.gl_vaos)],
        FreshName(o.gl_vaos))

\* create_buffers: vbo = glGenBuffers(1); glBindBuffer; glBufferData of
\* vertices.nbytes bytes
ManagerVbo(o, vertices) ==
    Issue(Issue([glGenBuffers(o, FreshName(o.gl_bufs))
                   EXCEPT !._vbo = FreshName(o.gl_bufs)],
                Call("glBindBuffer", "GL_ARRAY_BUFFER", FreshName(o.gl_bufs),
                     <<>>)),
          Call("glBufferData", "GL_ARRAY_BUFFER", Len(vertices) * 4, vertices))

\* create_indexed_buffers: ebo = glGenBuffers(1); glBindBuffer; glBufferData
ManagerEbo(o, indices) ==
    Issue(Issue([glGenBuffers(o, FreshName(o.gl_bufs))
                   EXCEPT !._ebo = FreshName(o.gl_bufs)],
                Call("glBindBuffer", "GL_ELEMENT_ARRAY_BUFFER",
                     FreshName(o.gl_bufs), <<>>)),
          Call("glBufferData", "GL_ELEMENT_ARRAY_BUFFER", Len(indices) * 4,
               indices))

\* create_buffers and create_indexed_buffers: the two attributes, then the
\* unbinding of the array buffer and of the VAO.
ManagerAttributes(o) ==
    glBindVertexArray(
        Issue(Issue(Issue(Issue(Issue(o,
            Call("glVertexAttribPointer", "", 0, <<>>)),
            Call("glEnableVertexAttribArray", "", 0, <<>>)),
            Call("glVertexAttribPointer", "", 1, <<>>)),
            Call("glEnableVertexAttribArray", "", 1, <<>>)),
            Call("glBindBuffer", "GL_ARRAY_BUFFER", 0, <<>>)),
        0)

\* OpenGLBufferManager.create_buffers(vertices), with GeometryBase's
\* assignment of (vao, vbo, vertex_count).
create_buffers(o, vertices) ==
    [ManagerAttributes(ManagerVbo(ManagerVao(o), vertices))
       EXCEPT !._vertex_count = Len(vertices) \div 6]

\* OpenGLBufferManager.create_indexed_buffers(vertices, indices), with
\* GeometryBase's assignment of (vao, vbo, ebo, index_count).
create_indexed_buffers(o, vertices, indices) ==
    [ManagerAttributes(ManagerEbo(ManagerVbo(ManagerVao(o), vertices), indices))
       EXCEPT !._index_count = Len(indices)]

\* delete_buffers: if ebo: glDeleteBuffers(1, [ebo])
ManagerDeleteEbo(o, ebo) == IF ebo # 0 THEN glDeleteBuffers(o, ebo) ELSE o

\* delete_buffers: if vbo: glDeleteBuffers(1, [vbo])
ManagerDeleteVbo(o, vbo) == IF vbo # 0 THEN glDeleteBuffers(o, vbo) ELSE o

\* delete_buffers: if vao: glDeleteVertexArrays(1, [vao])
ManagerDeleteVao(o, vao) == IF vao # 0 THEN glDeleteVertexArrays(o, vao) ELSE o

\* OpenGLBufferManager.delete_buffers(vao, vbo, ebo)
delete_buffers(o, vao, vbo, ebo) ==
    ManagerDeleteVao(ManagerDeleteVbo(ManagerDeleteEbo(o, ebo), vbo), vao)

\* GeometryBase.__init__
GeometryBase ==
    [ _vao |-> 0, _vbo |-> 0, _ebo |-> 0, _vertex_count |-> 0,
      _index_count |-> 0, _is_initialized |-> FALSE, _use_indices |-> FALSE ]

\* _delete_buffers: the counters and flags it resets in every case.
ResetCounts(o) ==
    [o EXCEPT !._is_initialized = FALSE, !._vertex_count = 0,
              !._index_count = 0, !._use_indices = FALSE]

\* _delete_buffers forgetting the handles it deleted (a faulty variant).
Geometry_delete_buffers_dangling(o) ==
    ResetCounts(IF o._is_initialized
                THEN delete_buffers(o, o._vao, o._vbo, o._ebo)
                ELSE o)

\* GeometryBase._delete_buffers
_delete_buffers(o) ==
    ResetCounts(IF o._is_initialized
                THEN [delete_buffers(o, o._vao, o._vbo, o._ebo)
                        EXCEPT !._vao = 0, !._vbo = 0, !._ebo = 0]
                ELSE o)

\* GeometryBase._create_buffers(vertices)
Geometry_create_buffers(o, vertices) ==
    [create_buffers(IF o._is_initialized THEN _delete_buffers(o) ELSE o,
                    vertices)
       EXCEPT !._is_initialized = TRUE, !._use_indices = FALSE]

\* GeometryBase._create_indexed_buffers(vertices, indices)
_create_indexed_buffers(o, vertices, indices) ==
    [create_indexed_buffers(
         IF o._is_initialized THEN _delete_buffers(o) ELSE o,
         vertices, indices)
       EXCEPT !._vertex_count = Len(vertices) \div 6,
              !._is_initialized = TRUE, !._use_indices = TRUE]

\* GeometryBase.cleanup
Geometry_cleanup(o) == _delete_buffers(o)

\* PointGeometry() without points
PointGeometry == GeometryBase @@ [ _points |-> <<>> ]

\* PointGeometry._update_buffers
Point_update_buffers(o) ==
    IF o._points = <<>> THEN _delete_buffers(o)
    ELSE Geometry_create_buffers(o, concatenate(o._points))

\* PointGeometry.add_point(x, y, z, r, g, b)
add_point(o, point) ==
    Point_update_buffers([o EXCEPT !._points = Append(@, point)])

\* PointGeometry.clear
Point_clear(o) == _delete_buffers([o EXCEPT !._points = <<>>])

\* RectangleGeometry(lazy_init=True): no buffer yet.
RectangleGeometry ==
    GeometryBase @@ [ _width |-> 1, _height |-> 1, _color |-> <<1, 1, 1>> ]

\* RectangleGeometry: the four corners, flat (x, y, z, r, g, b each).
RectangleVertices(o) ==
    LET w == Div(o._width, 2)
        h == Div(o._height, 2)
        c == <<Float(o._color[1]), Float(o._color[2]), Float(o._color[3])>>
    IN  <<Div(-o._width, 2), Div(-o._height, 2), Float(0)>> \o c
        \o <<w, Div(-o._height, 2), Float(0)>> \o c
        \o <<w, h, Float(0)>> \o c
        \o <<Div(-o._width, 2), h, Float(0)>> \o c

\* RectangleGeometry: the two triangles.
RectangleIndices == <<0, 1, 2, 2, 3, 0>>

\* RectangleGeometry._update_buffers
Rectangle_update_buffers(o) ==
    _create_indexed_buffers(o, RectangleVertices(o), RectangleIndices)

\* RectangleGeometry.set_size(width, height)
set_size(o, width, height) ==
    Rectangle_update_buffers([o EXCEPT !._width = width, !._height = height])

\* RectangleGeometry.set_color(r, g, b)
set_color(o, r, g, b) == Rectangle_update_buffers([o EXCEPT !._color = <<r, g, b>>])

\* The geometries the caller batches (app.py:813-817), as the fields their
\* get_vertex_data reads.  Sizes are even and the radius is 0, so that every
\* position is an integer: radius * sin(theta) * cos(phi) is 0 for radius 0
\* and no fraction of integers for most other spheres.

\* RectangleGeometry(width, height)
RectangleShape(width, height) ==
    [ type |-> "rectangle", _width |-> width, _height |-> height,
      _color |-> <<1, 1, 1>> ]

\* CubeGeometry(size)
CubeGeometry(size) == [ type |-> "cube", _size |-> size, _color |-> <<1, 1, 1>> ]

\* SphereGeometry(radius, segments, rings): max(3, segments), max(2, rings)
SphereGeometry(radius, segments, rings) ==
    [ type |-> "sphere", _radius |-> radius,
      _segments |-> IF segments > 3 THEN segments ELSE 3,
      _rings |-> IF rings > 2 THEN rings ELSE 2,
      _color |-> <<1, 1, 1>> ]

\* RectangleGeometry.get_vertex_data: the vertices, 4 x 6
Rectangle_vertices(o) ==
    << <<-(o._width \div 2), -(o._height \div 2), 0>> \o o._color,
       << o._width \div 2,   -(o._height \div 2), 0>> \o o._color,
       << o._width \div 2,     o._height \div 2,  0>> \o o._color,
       <<-(o._width \div 2),   o._height \div 2,  0>> \o o._color >>

\* CubeGeometry.get_vertex_data: the vertices, 8 x 6
Cube_vertices(o) ==
    << <<-(o._size \div 2), -(o._size \div 2),   o._size \div 2 >> \o o._color,
       <<  o._size \div 2,  -(o._size \div 2),   o._size \div 2 >> \o o._color,
       <<  o._size \div 2,    o._size \div 2,    o._size \div 2 >> \o o._color,
       <<-(o._size \div 2),   o._size \div 2,    o._size \div 2 >> \o o._color,
       <<-(o._size \div 2), -(o._size \div 2), -(o._size \div 2)>> \o o._color,
       <<  o._size \div 2,  -(o._size \div 2), -(o._size \div 2)>> \o o._color,
       <<  o._size \div 2,    o._size \div 2,  -(o._size \div 2)>> \o o._color,
       <<-(o._size \div 2),   o._size \div 2,  -(o._size \div 2)>> \o o._color >>

\* CubeGeometry.get_vertex_data: the indices, two triangles a face
Cube_indices ==
    << 0, 1, 2,  2, 3, 0,
       5, 4, 7,  7, 6, 5,
       4, 0, 3,  3, 7, 4,
       1, 5, 6,  6, 2, 1,
       3, 2, 6,  6, 7, 3,
       4, 5, 1,  1, 0, 4 >>

\* SphereGeometry.get_vertex_data: the vertex of one ring and segment, which
\* is at radius * (sin_theta * cos_phi, cos_theta, sin_theta * sin_phi)
Sphere_vertex(o, ring, segment) ==
    CASE o._radius = 0 -> <<0, 0, 0>> \o o._color

\* SphereGeometry.get_vertex_data: the vertices, ring in range(rings + 1)
\* and segment in range(segments + 1)
Sphere_vertices(o) ==
    concatenate([ ring \in 1..(o._rings + 1) |->
        [ segment \in 1..(o._segments + 1) |->
            Sphere_vertex(o, ring - 1, segment - 1) ] ])

\* The two triangles of one ring and segment: first, second, first + 1 and
\* second, second + 1, first + 1, for second = first + segments + 1.
Sphere_quad(first, segments) ==
    << first, first + segments + 1, first + 1,
       first + segments + 1, first + segments + 2, first + 1 >>

\* The indices generated for one ring too many (a faulty variant).
Sphere_indices_overrun(o) ==
    concatenate([ ring \in 1..(o._rings + 1) |->
        concatenate([ segment \in 1..o._segments |->
            Sphere_quad((ring - 1) * (o._segments + 1) + (segment - 1),
                        o._segments) ]) ])

\* SphereGeometry.get_vertex_data: the indices, ring in range(rings) and
\* segment in range(segments), first = ring * (segments + 1) + segment
Sphere_indices(o) ==
    concatenate([ ring \in 1..o._rings |->
        concatenate([ segment \in 1..o._segments |->
            Sphere_quad((ring - 1) * (o._segments + 1) + (segment - 1),
                        o._segments) ]) ])

\* geometry.get_vertex_data(): (vertices, indices)
get_vertex_data(o) ==
    CASE o.type = "rectangle" ->
           [ vertices |-> Rectangle_vertices(o), indices |-> RectangleIndices ]
      [] o.type = "cube" ->
           [ vertices |-> Cube_vertices(o), indices |-> Cube_indices ]
      [] o.type = "sphere" ->
           [ vertices |-> Sphere_vertices(o), indices |-> Sphere_indices(o) ]

----------------------------------------------------------------------------
(* Python floats of the cameras: a float is the fraction <<n, d>> it equals, *)
(* in lowest terms, d > 0.  The operations are the exact ones; the inputs    *)
(* explored are such that float arithmetic is exact on them or that its      *)
(* rounding does not bear on what is stated.                                 *)

\* The float n / d.
Q(n, d) == Div(n, d)

QAdd(a, b) == Q(a[1] * b[2] + b[1] * a[2], a[2] * b[2])
QNeg(a) == <<-a[1], a[2]>>
QSub(a, b) == QAdd(a, QNeg(b))
QMul(a, b) == Q(a[1] * b[1], a[2] * b[2])
QDiv(a, b) == Q(a[1] * b[2], a[2] * b[1])
QLess(a, b) == a[1] * b[2] < b[1] * a[2]
QAbs(a) == <<Abs(a[1]), a[2]>>

\* max(a, b) of Python: b when b > a, else a.
max(a, b) == IF QLess(a, b) THEN b ELSE a

\* min(a, b) of Python: b when b < a, else a.
min(a, b) == IF QLess(b, a) THEN b ELSE a

\* The float -1e-17, which is no fraction of integers this small: a
\* negative float so near 0 that m + it rounds to m for a float m >= 1.
MinusTiny == <<-1, 2147483647>>

\* a % m of Python for a float m >= 1: fmod(a, m), with m added to it when
\* it is negative, the sum being rounded.  Exact, and a - m * floor(a / m)
\* in [0, m), for the fractions; m for MinusTiny.
QMod(a, m) ==
    IF a = MinusTiny THEN m
    ELSE Q((a[1] * m[2]) % (m[1] * a[2]), a[2] * m[2])

\* np.array([x, y, z], dtype=np.float32)
Vec3(x, y, z) == <<astype_float32(x), astype_float32(y), astype_float32(z)>>

\* u + v and u - v of float32 arrays
VAdd(u, v) == Vec3(QAdd(u[1], v[1]), QAdd(u[2], v[2]), QAdd(u[3], v[3]))
VSub(u, v) == Vec3(QSub(u[1], v[1]), QSub(u[2], v[2]), QSub(u[3], v[3]))

\* np.cos and np.sin of np.radians(deg), where they are rational.
cos_deg(deg) ==
    CASE QMod(deg, Float(360)) = Float(0) -> Float(1)
      [] QMod(deg, Float(360)) = Float(90) -> Float(0)
      [] QMod(deg, Float(360)) = Float(180) -> Float(-1)
      [] QMod(deg, Float(360)) = Float(270) -> Float(0)
sin_deg(deg) == cos_deg(QSub(deg, Float(90)))

\* The angle has a rational sine and cosine.
RightAngle(deg) == QMod(deg, Float(90)) = Float(0)

----------------------------------------------------------------------------
(* Camera2D and Camera3D (src/src/graphics/camera.py).  A camera is the     *)
(* record of its fields.  The view matrix is a function of the fields: the  *)
(* mutators that change what it depends on recompute it, and recomputing it *)
(* never raises.  The projection matrix is a field, _projection_matrix, of  *)
(* the entries the code assigns: recomputing it writes into a fresh zero    *)
(* matrix entry by entry and stops where a Python float is divided by 0.0,  *)
(* which raises ZeroDivisionError and leaves the entries after it 0.        *)

\* CameraBase: width / height if height > 0 else 1.0
Aspect(width, height) == IF height > 0 THEN Q(width, height) ELSE Float(1)

\* np.zeros((4, 4)), of Camera2D: the entries [0,0], [1,1], [2,2], [2,3] and
\* [3,3].  ([0,3] and [1,3] are -(right + left) / (right - left) and
\* -(top + bottom) / (top - bottom), which are 0.)
Zeros2D ==
    [ m00 |-> Float(0), m11 |-> Float(0), m22 |-> Float(0), m23 |-> Float(0),
      m33 |-> Float(0) ]

\* Camera2D._update_projection_matrix: right - left = 2 * aspect / zoom and
\* top - bottom = 2 / zoom are Python floats, as far - near is
Camera2D_update_projection_matrix(c) ==
    [c EXCEPT !._projection_matrix =
        IF QMul(Float(2), QDiv(c._aspect, c._zoom)) = Float(0)
        THEN Zeros2D
        ELSE IF QSub(c._far, c._near) = Float(0)
        THEN [Zeros2D EXCEPT
                !.m00 = QDiv(Float(2), QMul(Float(2), QDiv(c._aspect, c._zoom))),
                !.m11 = QDiv(Float(2), QMul(Float(2), QDiv(Float(1), c._zoom)))]
        ELSE [ m00 |-> QDiv(Float(2), QMul(Float(2), QDiv(c._aspect, c._zoom))),
               m11 |-> QDiv(Float(2), QMul(Float(2), QDiv(Float(1), c._zoom))),
               m22 |-> QDiv(Float(-2), QSub(c._far, c._near)),
               m23 |-> QDiv(QNeg(QAdd(c._far, c._near)), QSub(c._far, c._near)),
               m33 |-> Float(1) ]]

\* np.zeros((4, 4)), of Camera3D: the entries [0,0] and [1,1], which are
\* f / aspect and f for f = 1 / tan(fov / 2), kept as the fov and the aspect
\* they were computed from, and [2,2], [2,3] and [3,2].
Zeros3D ==
    [ m00 |-> <<Float(0), Float(0)>>, m11 |-> Float(0),
      m22 |-> Float(0), m23 |-> Float(0), m32 |-> Float(0) ]

\* Camera3D._update_projection_matrix: f is a numpy float, whose division by
\* the aspect 0.0 gives inf; near - far is a Python float
Camera3D_update_projection_matrix(c) ==
    [c EXCEPT !._projection_matrix =
        IF QSub(c._near, c._far) = Float(0)
        THEN [Zeros3D EXCEPT !.m00 = <<c._fov, c._aspect>>, !.m11 = c._fov]
        ELSE [ m00 |-> <<c._fov, c._aspect>>, m11 |-> c._fov,
               m22 |-> QDiv(QAdd(c._far, c._near), QSub(c._near, c._far)),
               m23 |-> QDiv(QMul(QMul(Float(2), c._far), c._near),
                            QSub(c._near, c._far)),
               m32 |-> Float(-1) ]]

\* self._update_projection_matrix() of a camera: that of its class
_update_projection_matrix(c) ==
    IF "_zoom" \in DOMAIN c THEN Camera2D_update_projection_matrix(c)
    ELSE Camera3D_update_projection_matrix(c)

\* The last _update_projection_matrix of the camera raised
\* ZeroDivisionError: the entry it assigns last is not there.
ZeroDivisionError(c) ==
    IF "_zoom" \in DOMAIN c THEN c._projection_matrix.m33 = Float(0)
    ELSE c._projection_matrix.m32 = Float(0)

\* Camera2D(width, height)
Camera2D(width, height) ==
    Camera2D_update_projection_matrix(
        [ _width |-> width, _height |-> height,
          _aspect |-> Aspect(width, height),
          _position_x |-> Float(0), _position_y |-> Float(0),
          _zoom |-> Float(1), _rotation |-> Float(0),
          _near |-> Float(-10), _far |-> Float(10),
          _projection_matrix |-> Zeros2D ])

\* CameraBase.set_viewport(width, height), for either camera
set_viewport(c, width, height) ==
    _update_projection_matrix(
        [c EXCEPT !._width = width, !._height = height,
                  !._aspect = Aspect(width, height)])

\* set_clip_planes(near, far), for either camera
set_clip_planes(c, near, far) ==
    _update_projection_matrix([c EXCEPT !._near = near, !._far = far])

\* Camera2D.set_position(x, y)
Camera2D_set_position(c, x, y) ==
    [c EXCEPT !._position_x = x, !._position_y = y]

\* set_zoom without the minimum (a faulty variant).
set_zoom_unclamped(c, zoom) == [c EXCEPT !._zoom = zoom]

\* Camera2D.set_zoom(zoom)
set_zoom(c, zoom) ==
    Camera2D_update_projection_matrix([c EXCEPT !._zoom = max(Q(1, 100), zoom)])

\* Camera2D.set_rotation(rotation)
set_rotation(c, rotation) ==
    [c EXCEPT !._rotation = QMod(rotation, Float(360))]

\* Camera2D.reset
Camera2D_reset(c) ==
    Camera2D_update_projection_matrix(
        [c EXCEPT !._position_x = Float(0), !._position_y = Float(0),
                  !._zoom = Float(1), !._rotation = Float(0)])

\* Camera2D._update_view_matrix: rows 0 and 1, columns 0 and 1, as
\* <<right_x, right_y, up_x, up_y>>
Camera2D_view_matrix(c) ==
    << cos_deg(c._rotation), sin_deg(c._rotation),
       QNeg(sin_deg(c._rotation)), cos_deg(c._rotation) >>

\* A Camera3D position that is an array of known floats.
At(v) == [at |-> v, orbit |-> None]

\* A Camera3D position target + (x, y, z) of set_orbit(azimuth, elevation,
\* distance), whose x, y, z are not rational: v plus that offset.
Orbiting(v, azimuth, elevation, distance) ==
    [at |-> v, orbit |-> Some(<<azimuth, elevation, distance>>)]

\* The up axis of Camera3D.
UpAxis == {"Y_UP", "Z_UP"}

\* Camera3D(width, height)
Camera3D(width, height) ==
    Camera3D_update_projection_matrix(
        [ _width |-> width, _height |-> height,
          _aspect |-> Aspect(width, height),
          _position |-> At(Vec3(Float(0), Float(0), Float(5))),
          _target |-> Vec3(Float(0), Float(0), Float(0)),
          _up |-> Vec3(Float(0), Float(1), Float(0)),
          _fov |-> Float(45), _near |-> Q(1, 10), _far |-> Float(100),
          up_axis |-> "Y_UP", _projection_matrix |-> Zeros3D ])

\* Camera3D.set_up_axis(axis)
set_up_axis(c, axis) == [c EXCEPT !.up_axis = axis]

\* Camera3D.set_up(x, y, z)
set_up(c, x, y, z) == [c EXCEPT !._up = Vec3(x, y, z)]

\* Camera3D.set_fov(fov)
set_fov(c, fov) ==
    Camera3D_update_projection_matrix(
        [c EXCEPT !._fov = max(Float(1), min(Float(179), fov))])

\* translate putting the up vector back to (0, 1, 0) (a faulty variant).
translate_resetting_up(c, dx, dy, dz) ==
    [c EXCEPT !._position.at = VAdd(@, Vec3(dx, dy, dz)),
              !._target = VAdd(@, Vec3(dx, dy, dz)),
              !._up = Vec3(Float(0), Float(1), Float(0))]

\* Camera3D.translate(dx, dy, dz)
translate(c, dx, dy, dz) ==
    [c EXCEPT !._position.at = VAdd(@, Vec3(dx, dy, dz)),
              !._target = VAdd(@, Vec3(dx, dy, dz))]

\* set_pan adding the offset to where the camera is (a faulty variant).
set_pan_relative(c, x, y, z) ==
    [c EXCEPT !._position.at = VAdd(@, Vec3(x, y, z)),
              !._target = VAdd(@, Vec3(x, y, z))]

\* Camera3D.set_pan(x, y, z)
set_pan(c, x, y, z) ==
    [c EXCEPT !._position = At(VAdd(Vec3(Float(0), Float(0), Float(5)),
                                    Vec3(x, y, z))),
              !._target = VAdd(Vec3(Float(0), Float(0), Float(0)),
                               Vec3(x, y, z))]

\* Camera3D.set_orbit(azimuth, elevation, distance): the position is the
\* target plus (d cos e sin a, d sin e, d cos e cos a), which is (0, 0, d)
\* for a = e = 0 (d = 0 included).
set_orbit(c, azimuth, elevation, distance) ==
    [c EXCEPT !._position =
        IF distance = Float(0)
           \/ (azimuth = Float(0) /\ elevation = Float(0) /\ Exact32(distance))
        THEN At(VAdd(c._target, Vec3(Float(0), Float(0), distance)))
        ELSE Orbiting(c._target, azimuth, elevation, distance)]

\* np.degrees(np.arctan2(sin a, cos a)): the angle a brought into
\* [-180, 180].
Arctan2(a) ==
    IF ~QLess(a, Float(-180)) /\ ~QLess(Float(180), a) THEN a
    ELSE QSub(QMod(QAdd(a, Float(180)), Float(360)), Float(180))

\* Camera3D.get_orbit: (azimuth, elevation, distance).  Of a position on
\* the +Z axis from the target or at it: (0, 0, distance).  Of a position
\* set by set_orbit(a, e, d) about the present target, with e inside
\* (-90, 90): a in [-180, 180], e and d (as real numbers: the floats
\* returned are within rounding of these).
get_orbit(c) ==
    CASE ~c._position.orbit.some
         /\ VSub(c._position.at, c._target)[1] = Float(0)
         /\ VSub(c._position.at, c._target)[2] = Float(0)
         /\ VSub(c._position.at, c._target)[3][1] >= 0 ->
           <<Float(0), Float(0), VSub(c._position.at, c._target)[3]>>
      [] c._position.orbit.some /\ c._position.at = c._target
         /\ QLess(QAbs(c._position.orbit.val[2]), Float(90))
         /\ ~QLess(c._position.orbit.val[3], Q(1, 1000)) ->
           << Arctan2(c._position.orbit.val[1]), c._position.orbit.val[2],
              c._position.orbit.val[3] >>

\* np.cross(a, b)
Cross(a, b) ==
    << QSub(QMul(a[2], b[3]), QMul(a[3], b[2])),
       QSub(QMul(a[3], b[1]), QMul(a[1], b[3])),
       QSub(QMul(a[1], b[2]), QMul(a[2], b[1])) >>

\* At most one component of v is not 0: v is 0 or along an axis.
AxisAligned(v) == Cardinality({ i \in 1..3 : v[i] # Float(0) }) <= 1

\* v / norm(v) if norm(v) > 0, else v, for an axis-aligned v
Normalized(v) == [i \in 1..3 |-> Float(Sign(v[i][1]))]

\* The rows of the view matrix built from forward and right: right,
\* up_new = cross(right, forward) and -forward.
ViewRows(forward, right) ==
    [ known |-> TRUE, right |-> right, up |-> Cross(right, forward),
      forward |-> <<QNeg(forward[1]), QNeg(forward[2]), QNeg(forward[3])>> ]

\* Camera3D._update_view_matrix: the three rows of the matrix it builds,
\* where the camera looks along an axis or is at its target and up is along
\* an axis; elsewhere the rows are not rational (known is FALSE).
Camera3D_view_matrix(c) ==
    IF \/ c._position.orbit.some
       \/ ~AxisAligned(VSub(c._target, c._position.at))
       \/ ~AxisAligned(c._up)
    THEN [ known |-> FALSE, right |-> <<>>, up |-> <<>>, forward |-> <<>> ]
    ELSE ViewRows(Normalized(VSub(c._target, c._position.at)),
                  Normalized(Cross(Normalized(VSub(c._target, c._position.at)),
                                   c._up)))

\* Camera3D.reset forgetting the target (a faulty variant).
Camera3D_reset_partial(c) ==
    [c EXCEPT !._position = At(Vec3(Float(0), Float(0), Float(5))),
              !._up = Vec3(Float(0), Float(1), Float(0)),
              !._fov = Float(45)]

\* Camera3D.reset
Camera3D_reset(c) ==
    Camera3D_update_projection_matrix(
        [c EXCEPT !._position = At(Vec3(Float(0), Float(0), Float(5))),
                  !._target = Vec3(Float(0), Float(0), Float(0)),
                  !._up = Vec3(Float(0), Float(1), Float(0)),
                  !._fov = Float(45)])

----------------------------------------------------------------------------
(* MouseController (src/src/core/mouse_controller.py) *)

\* MouseButton
MouseButton == {"LEFT", "RIGHT", "MIDDLE"}

\* MouseController(window), the cursor at (0, 0)
MouseController ==
    [ _current_x |-> 0, _current_y |-> 0, _last_x |-> 0, _last_y |-> 0,
      _button_pressed |-> [b \in MouseButton |-> FALSE],
      _scroll_x |-> 0, _scroll_y |-> 0 ]

\* _mouse_button_callback for each button whose state differs from pressed:
\* a PRESS or a RELEASE
_mouse_button_callback(m, pressed) ==
    [m EXCEPT !._button_pressed = [b \in MouseButton |-> b \in pressed]]

\* _cursor_pos_callback(window, x, y)
_cursor_pos_callback(m, x, y) == [m EXCEPT !._current_x = x, !._current_y = y]

\* A scroll callback that keeps the last offset only.
_scroll_callback_last_only(m, x_offset, y_offset) ==
    [m EXCEPT !._scroll_x = x_offset, !._scroll_y = y_offset]

\* _scroll_callback(window, x_offset, y_offset)
_scroll_callback(m, x_offset, y_offset) ==
    [m EXCEPT !._scroll_x = @ + x_offset, !._scroll_y = @ + y_offset]

\* An update that stores the last position and keeps the scroll (a faulty
\* variant).
Mouse_update_keeping_scroll(m) ==
    [m EXCEPT !._last_x = m._current_x, !._last_y = m._current_y]

\* MouseController.update
Mouse_update(m) ==
    [m EXCEPT !._last_x = m._current_x, !._last_y = m._current_y,
              !._scroll_x = 0, !._scroll_y = 0]

\* MouseController.delta
delta(m) == <<m._current_x - m._last_x, m._current_y - m._last_y>>

\* MouseController.scroll
scroll(m) == <<m._scroll_x, m._scroll_y>>

\* MouseController.is_dragging(button), which is_left_dragging,
\* is_right_dragging and is_middle_dragging call
is_dragging(m, button) == m._button_pressed[button]

----------------------------------------------------------------------------
(* CameraController (src/src/core/camera_controller.py).  Its methods take  *)
(* and return w: the two cameras and the calls made on them so far.         *)

\* CameraController(mouse, camera_2d, camera_3d)
CameraController ==
    [ _orbit_sensitivity |-> Q(1, 2), _pan_sensitivity |-> Q(1, 100),
      _zoom_sensitivity |-> Q(1, 10), _rotation_sensitivity |-> Q(1, 2),
      _enabled |-> TRUE ]

\* set_orbit_sensitivity(value)
set_orbit_sensitivity(k, value) ==
    [k EXCEPT !._orbit_sensitivity = max(Q(1, 100), value)]

\* set_pan_sensitivity(value)
set_pan_sensitivity(k, value) ==
    [k EXCEPT !._pan_sensitivity = max(Q(1, 1000), value)]

\* set_zoom_sensitivity(value)
set_zoom_sensitivity(k, value) ==
    [k EXCEPT !._zoom_sensitivity = max(Q(1, 100), value)]

\* set_enabled(value)
set_enabled(k, value) == [k EXCEPT !._enabled = value]

\* The element of a set of one.
Only(S) == CHOOSE x \in S : TRUE

\* A call of a camera method by the controller, recorded.
Called(w, fn, args) == [w EXCEPT !.calls = Append(@, [fn |-> fn, args |-> args])]

\* The controller's call of a method of one of its cameras
Invoke(w, fn, args) ==
    [Called(w, fn, args) EXCEPT
       !.camera_3d =
           CASE fn = "set_orbit" -> set_orbit(@, args[1], args[2], args[3])
             [] fn = "translate" -> translate(@, args[1], args[2], args[3])
             [] OTHER -> @,
       !.camera_2d =
           CASE fn = "set_rotation" -> set_rotation(@, args[1])
             [] fn = "set_position" -> Camera2D_set_position(@, args[1], args[2])
             [] fn = "set_zoom" -> set_zoom(@, args[1])
             [] OTHER -> @]

\* The elevation of the drag clamped to [-85, 85] (a faulty variant).
DraggedElevation_clamped_at_85(elevation, dy, sensitivity) ==
    max(Float(-85), min(Float(85), QAdd(elevation, QMul(Float(dy), sensitivity))))

\* _update_3d_camera: elevation += dy * sensitivity, clamped to [-89, 89]
DraggedElevation(elevation, dy, sensitivity) ==
    max(Float(-89), min(Float(89), QAdd(elevation, QMul(Float(dy), sensitivity))))

\* The orbit made with one call for the azimuth and one for the elevation
\* (a faulty variant).
Orbit3D_angle_by_angle(w, m, k) ==
    IF is_dragging(m, "LEFT")
    THEN Invoke(
             Invoke(w, "set_orbit",
                 << QSub(get_orbit(w.camera_3d)[1],
                         QMul(Float(delta(m)[1]), k._orbit_sensitivity)),
                    get_orbit(w.camera_3d)[2], get_orbit(w.camera_3d)[3] >>),
             "set_orbit",
             << QSub(get_orbit(w.camera_3d)[1],
                     QMul(Float(delta(m)[1]), k._orbit_sensitivity)),
                DraggedElevation(get_orbit(w.camera_3d)[2], delta(m)[2],
                                 k._orbit_sensitivity),
                get_orbit(w.camera_3d)[3] >>)
    ELSE w

\* _update_3d_camera, left drag: the orbit
Orbit3D(w, m, k) ==
    IF is_dragging(m, "LEFT")
    THEN Invoke(w, "set_orbit",
             << QSub(get_orbit(w.camera_3d)[1],
                     QMul(Float(delta(m)[1]), k._orbit_sensitivity)),
                DraggedElevation(get_orbit(w.camera_3d)[2], delta(m)[2],
                                 k._orbit_sensitivity),
                get_orbit(w.camera_3d)[3] >>)
    ELSE w

\* The first row of the 3D view matrix with the up-axis component zeroed,
\* normalized: for a Y-up camera looking at its target from azimuth a.
HorizontalRight(c) ==
    CASE ~c._position.orbit.some /\ c._position.at = c._target ->
           <<Float(0), Float(0), Float(0)>>
      [] ~c._position.orbit.some /\ c._position.at # c._target ->
           <<Float(1), Float(0), Float(0)>>
      [] c._position.orbit.some ->
           << cos_deg(c._position.orbit.val[1]), Float(0),
              QNeg(sin_deg(c._position.orbit.val[1])) >>

\* The negated third row of the 3D view matrix, likewise.
HorizontalForward(c) ==
    CASE ~c._position.orbit.some /\ c._position.at = c._target ->
           <<Float(0), Float(0), Float(0)>>
      [] ~c._position.orbit.some /\ c._position.at # c._target ->
           <<Float(0), Float(0), Float(-1)>>
      [] c._position.orbit.some ->
           << QNeg(sin_deg(c._position.orbit.val[1])), Float(0),
              QNeg(cos_deg(c._position.orbit.val[1])) >>

\* HorizontalRight and HorizontalForward are known for the camera: it is
\* Y-up with up = (0, 1, 0) and looks at its target along -Z, or from an
\* azimuth that is a multiple of 90 and an elevation inside [-89, 89].
PanComputable(c) ==
    /\ c.up_axis = "Y_UP"
    /\ c._up = Vec3(Float(0), Float(1), Float(0))
    /\ IF c._position.orbit.some
       THEN /\ c._position.at = c._target
            /\ RightAngle(c._position.orbit.val[1])
            /\ ~QLess(Float(89), QAbs(c._position.orbit.val[2]))
            /\ QLess(Float(0), c._position.orbit.val[3])
       ELSE /\ VSub(c._position.at, c._target)[1] = Float(0)
            /\ VSub(c._position.at, c._target)[2] = Float(0)
            /\ VSub(c._position.at, c._target)[3][1] >= 0

\* move = -dx * pan * right - dy * pan * forward, one component
PanMove(dx, dy, pan, right, forward) ==
    QSub(QMul(QMul(Float(-dx), pan), right),
         QMul(QMul(Float(dy), pan), forward))

\* _update_3d_camera, right drag: the pan in the horizontal plane
Pan3D(w, m, k) ==
    IF is_dragging(m, "RIGHT")
    THEN Invoke(w, "translate",
             [i \in 1..3 |->
                 PanMove(delta(m)[1], delta(m)[2], k._pan_sensitivity,
                         HorizontalRight(w.camera_3d)[i],
                         HorizontalForward(w.camera_3d)[i])])
    ELSE w

\* Height3D moving along Y whatever the up axis (a faulty variant).
Height3D_always_y(w, m, k) ==
    IF is_dragging(m, "MIDDLE")
    THEN Invoke(w, "translate",
                << Float(0), QMul(Float(delta(m)[2]), k._pan_sensitivity),
                   Float(0) >>)
    ELSE w

\* _update_3d_camera, middle drag: the move along the up axis
Height3D(w, m, k) ==
    IF is_dragging(m, "MIDDLE")
    THEN IF w.camera_3d.up_axis = "Z_UP"
         THEN Invoke(w, "translate",
                     << Float(0), Float(0),
                        QMul(Float(delta(m)[2]), k._pan_sensitivity) >>)
         ELSE Invoke(w, "translate",
                     << Float(0), QMul(Float(delta(m)[2]), k._pan_sensitivity),
                        Float(0) >>)
    ELSE w

\* The distance of the scroll without the clamp (a faulty variant).
ScrolledDistance_unclamped(distance, amount, sensitivity) ==
    QSub(distance, QMul(QMul(QMul(Float(amount), sensitivity), distance),
                        Q(1, 10)))

\* _update_3d_camera: distance -= scroll * sensitivity * distance * 0.1,
\* clamped to [0.5, 100]
ScrolledDistance(distance, amount, sensitivity) ==
    max(Q(1, 2), min(Float(100),
        QSub(distance, QMul(QMul(QMul(Float(amount), sensitivity), distance),
                            Q(1, 10)))))

\* _update_3d_camera, scroll: the distance
Dolly3D(w, m, k) ==
    IF scroll(m)[2] # 0
    THEN Invoke(w, "set_orbit",
             << get_orbit(w.camera_3d)[1], get_orbit(w.camera_3d)[2],
                ScrolledDistance(get_orbit(w.camera_3d)[3], scroll(m)[2],
                                 k._zoom_sensitivity) >>)
    ELSE w

\* CameraController._update_3d_camera(dx, dy, scroll): the four steps, each
\* on the cameras the one before left
_update_3d_camera(w, m, k) ==
    Only({ Dolly3D(h, m, k) :
             h \in { Height3D(p, m, k) :
                       p \in { Pan3D(o, m, k) : o \in { Orbit3D(w, m, k) } } } })

\* _update_2d_camera, left drag: the rotation
Rotate2D(w, m, k) ==
    IF is_dragging(m, "LEFT")
    THEN Invoke(w, "set_rotation",
             << QSub(w.camera_2d._rotation,
                     QMul(Float(delta(m)[1]), k._rotation_sensitivity)) >>)
    ELSE w

\* (-dx * right + dy * up) * scale
PanMove2D(dx, dy, right, up, scale) ==
    QMul(QAdd(QMul(Float(-dx), right), QMul(Float(dy), up)), scale)

\* _update_2d_camera, right or middle drag: the pan
Pan2D(w, m, k) ==
    IF is_dragging(m, "RIGHT") \/ is_dragging(m, "MIDDLE")
    THEN Invoke(w, "set_position",
             << QAdd(w.camera_2d._position_x,
                     PanMove2D(delta(m)[1], delta(m)[2],
                               Camera2D_view_matrix(w.camera_2d)[1],
                               Camera2D_view_matrix(w.camera_2d)[3],
                               QDiv(k._pan_sensitivity, w.camera_2d._zoom))),
                QAdd(w.camera_2d._position_y,
                     PanMove2D(delta(m)[1], delta(m)[2],
                               Camera2D_view_matrix(w.camera_2d)[2],
                               Camera2D_view_matrix(w.camera_2d)[4],
                               QDiv(k._pan_sensitivity, w.camera_2d._zoom))) >>)
    ELSE w

\* _update_2d_camera, scroll: zoom *= 1.0 + scroll * sensitivity, clamped
\* to [0.1, 10]
Zoom2D(w, m, k) ==
    IF scroll(m)[2] # 0
    THEN Invoke(w, "set_zoom",
             << max(Q(1, 10), min(Float(10),
                    QMul(w.camera_2d._zoom,
                         QAdd(Float(1), QMul(Float(scroll(m)[2]),
                                             k._zoom_sensitivity))))) >>)
    ELSE w

\* CameraController._update_2d_camera(dx, dy, scroll): the three steps,
\* each on the cameras the one before left
_update_2d_camera(w, m, k) ==
    Only({ Zoom2D(p, m, k) :
             p \in { Pan2D(r, m, k) : r \in { Rotate2D(w, m, k) } } })

\* update acting on the wheel also while disabled (a faulty variant).
update_ungated_wheel(w, m, k, use_3d_camera) ==
    IF ~k._enabled /\ \E b \in MouseButton : is_dragging(m, b) THEN w
    ELSE IF use_3d_camera THEN _update_3d_camera(w, m, k)
         ELSE _update_2d_camera(w, m, k)

\* CameraController.update(use_3d_camera)
update(w, m, k, use_3d_camera) ==
    IF ~k._enabled THEN w
    ELSE IF use_3d_camera THEN _update_3d_camera(w, m, k)
         ELSE _update_2d_camera(w, m, k)

----------------------------------------------------------------------------
(* The state machine *)

\* What a batch refers to, as values.
Held(h, b) ==
    [ vertices |-> h[b.vertices],
      indices |-> IF b.indices # NoneRef THEN Some(h[b.indices]) ELSE None,
      transform |-> h[b.transform] ]

\* BatchRenderer(PrimitiveType.TRIANGLES) as the application constructs it, a
\* fresh GL context, and the caller's geometry in any of its states.
InitRenderer(presets) ==
    /\ _primitive_type = "GL_TRIANGLES"
    /\ _batches = <<>>
    /\ _vao = 0 /\ _vbo = 0 /\ _ebo = 0
    /\ _is_dirty = FALSE
    /\ _use_indices = FALSE
    /\ _total_vertices = 0
    /\ _total_indices = 0
    /\ \E g \in presets :
         heap = (GeoVertices :> g.vertices) @@ (GeoIndices :> g.indices)
                @@ (GeoTransform :> g.transform)
    /\ gl_vaos = {} /\ gl_bufs = {}
    /\ gl_calls = <<>>
    /\ last_op = "__init__"
    /\ added = <<>>
    /\ ever_indexed = FALSE

\* The geometries as constructed, without a GL buffer yet.
InitGeometries ==
    /\ point_geometry = PointGeometry
    /\ rectangle_geometry = RectangleGeometry
    /\ geometry = RectangleShape(2, 2)

\* App.__init__: the cameras, the mouse and the camera controller as
\* constructed for a window of 800 x 600.
InitCameras ==
    /\ camera_2d = Camera2D(800, 600)
    /\ camera_3d = Camera3D(800, 600)
    /\ mouse = MouseController
    /\ controller = CameraController
    /\ camera_calls = <<>>
    /\ polled = [mouse |-> MouseController, use_3d_camera |-> TRUE]
    /\ scroll_offsets = <<>>
    /\ steps = 0

Init == InitRenderer(Geometries) /\ InitGeometries /\ InitCameras

\* renderer.add_geometry(vertices, indices or None, transform) with the
\* caller's arrays.
AddGeometry ==
    \E indices \in {GeoIndices, NoneRef} :
        /\ Len(_batches) < MaxBatches
        /\ Becomes(add_geometry(Self, GeoVertices, indices, GeoTransform))
        /\ last_op' = IF indices # NoneRef THEN "add_geometry(indices)"
                                          ELSE "add_geometry(None)"
        /\ added' = IF Len(heap[GeoVertices]) = 0 THEN added
                    ELSE Append(added,
                           [ vertices |-> heap[GeoVertices],
                             indices |-> IF indices # NoneRef
                                         THEN Some(heap[GeoIndices]) ELSE None,
                             transform |-> heap[GeoTransform] ])
        /\ ever_indexed' = (ever_indexed
                            \/ (Len(heap[GeoVertices]) > 0 /\ indices # NoneRef))
        /\ UNCHANGED scene

\* renderer.clear()
Clear ==
    /\ Becomes(clear(Self))
    /\ last_op' = "clear"
    /\ added' = <<>>
    /\ UNCHANGED <<ever_indexed, scene>>

\* renderer.build()
Build ==
    /\ Becomes(build(Self))
    /\ last_op' = "build"
    /\ UNCHANGED <<added, ever_indexed, scene>>

\* renderer.flush()
Flush ==
    /\ Becomes(flush(Self))
    /\ last_op' = "flush"
    /\ UNCHANGED <<added, ever_indexed, scene>>

\* renderer.cleanup()
Cleanup ==
    /\ Becomes(cleanup(Self))
    /\ last_op' = "cleanup"
    /\ UNCHANGED <<added, ever_indexed, scene>>

\* The caller overwrites or empties its own arrays in place.
MutateGeometry ==
    \E g \in Geometries :
        /\ g # [ vertices |-> heap[GeoVertices], indices |-> heap[GeoIndices],
                 transform |-> heap[GeoTransform] ]
        /\ heap' = [heap EXCEPT ![GeoVertices] = g.vertices,
                                ![GeoIndices] = g.indices,
                                ![GeoTransform] = g.transform]
        /\ gl_calls' = <<>>
        /\ last_op' = "mutate"
        /\ UNCHANGED <<renderer, gl_vaos, gl_bufs, added, ever_indexed, scene>>

Next ==
    \/ AddGeometry
    \/ Clear
    \/ Build
    \/ Flush
    \/ Cleanup
    \/ MutateGeometry

Spec == Init /\ [][Next]_vars

----------------------------------------------------------------------------
(* The renderer and the geometries on one GL context *)

\* point_geometry.add_point(x, y, z, r, g, b)
AddPoint ==
    /\ Len(point_geometry._points) < MaxPoints
    /\ point_geometry' = Fields(add_point(WithContext(point_geometry),
                                          SamplePoint), point_geometry)
    /\ ContextBecomes(add_point(WithContext(point_geometry), SamplePoint))
    /\ last_op' = "point.add_point"
    /\ UNCHANGED <<renderer, heap, added, ever_indexed, rectangle_geometry,
                   geometry, cameras>>

\* point_geometry.clear()
PointClear ==
    /\ point_geometry' = Fields(Point_clear(WithContext(point_geometry)),
                                point_geometry)
    /\ ContextBecomes(Point_clear(WithContext(point_geometry)))
    /\ last_op' = "point.clear"
    /\ UNCHANGED <<renderer, heap, added, ever_indexed, rectangle_geometry,
                   geometry, cameras>>

\* point_geometry.cleanup()
PointCleanup ==
    /\ point_geometry' = Fields(Geometry_cleanup(WithContext(point_geometry)),
                                point_geometry)
    /\ ContextBecomes(Geometry_cleanup(WithContext(point_geometry)))
    /\ last_op' = "point.cleanup"
    /\ UNCHANGED <<renderer, heap, added, ever_indexed, rectangle_geometry,
                   geometry, cameras>>

\* rectangle_geometry.set_size(width, height)
SetSize ==
    \E size \in SampleSizes :
        /\ rectangle_geometry' =
               Fields(set_size(WithContext(rectangle_geometry),
                               size[1], size[2]), rectangle_geometry)
        /\ ContextBecomes(set_size(WithContext(rectangle_geometry),
                                   size[1], size[2]))
        /\ last_op' = "rectangle.set_size"
        /\ UNCHANGED <<renderer, heap, added, ever_indexed, point_geometry,
                   geometry, cameras>>

\* rectangle_geometry.set_color(r, g, b), with the colour it has
SetColor ==
    \E color \in { <<1, 1, 1>> } :
        /\ rectangle_geometry' =
               Fields(set_color(WithContext(rectangle_geometry),
                                color[1], color[2], color[3]),
                      rectangle_geometry)
        /\ ContextBecomes(set_color(WithContext(rectangle_geometry),
                                    color[1], color[2], color[3]))
        /\ last_op' = "rectangle.set_color"
        /\ UNCHANGED <<renderer, heap, added, ever_indexed, point_geometry,
                       geometry, cameras>>

\* rectangle_geometry.cleanup()
RectangleCleanup ==
    /\ rectangle_geometry' =
           Fields(Geometry_cleanup(WithContext(rectangle_geometry)),
                  rectangle_geometry)
    /\ ContextBecomes(Geometry_cleanup(WithContext(rectangle_geometry)))
    /\ last_op' = "rectangle.cleanup"
    /\ UNCHANGED <<renderer, heap, added, ever_indexed, point_geometry,
                   geometry, cameras>>

GpuNext ==
    \/ AddGeometry
    \/ Build
    \/ Cleanup
    \/ AddPoint
    \/ PointClear
    \/ PointCleanup
    \/ SetSize
    \/ SetColor
    \/ RectangleCleanup

\* The caller of the renderer hands over one indexed triangle throughout.
GpuInit ==
    /\ InitRenderer({ g \in Geometries : g.indices = <<0, 1, 2>> })
    /\ InitGeometries
    /\ InitCameras

GpuSpec == GpuInit /\ [][GpuNext]_vars

----------------------------------------------------------------------------
(* The renderer batching rectangles, cubes and spheres *)

\* The geometries the caller has: a rectangle, a cube, a sphere asked for
\* with fewer segments and rings than the minimum, and a sphere of 4
\* segments and 3 rings.
Shapes ==
    { RectangleShape(2, 2), CubeGeometry(2),
      SphereGeometry(0, 0, 1), SphereGeometry(0, 4, 3) }

\* The caller's arrays are those of g.get_vertex_data(), its model matrix
\* the identity.
VertexDataOf(g) ==
    [ vertices |-> get_vertex_data(g).vertices,
      indices |-> get_vertex_data(g).indices, transform |-> Identity ]

\* geometry = one of the geometries; vertices, indices =
\* geometry.get_vertex_data()
GetVertexData ==
    \E g \in Shapes :
        /\ g # geometry
        /\ geometry' = g
        /\ heap' = [heap EXCEPT ![GeoVertices] = VertexDataOf(g).vertices,
                                ![GeoIndices] = VertexDataOf(g).indices,
                                ![GeoTransform] = VertexDataOf(g).transform]
        /\ gl_calls' = <<>>
        /\ last_op' = "get_vertex_data"
        /\ UNCHANGED <<renderer, gl_vaos, gl_bufs, added, ever_indexed,
                       point_geometry, rectangle_geometry, cameras>>

MeshNext ==
    \/ GetVertexData
    \/ AddGeometry
    \/ Clear
    \/ Build

\* The caller starts with the arrays of its rectangle.
MeshInit ==
    /\ InitRenderer({ VertexDataOf(RectangleShape(2, 2)) })
    /\ InitGeometries
    /\ InitCameras

MeshSpec == MeshInit /\ [][MeshNext]_vars

----------------------------------------------------------------------------
(* The cameras, the mouse and the camera controller *)

\* The frames and calls explored from the initial state.
MaxSteps == 2

\* What the window delivers between two steps: the buttons held, the
\* cursor's move and the wheel's.
Gestures ==
    { [pressed |-> {}, dx |-> 0, dy |-> 0, scroll |-> 0],
      [pressed |-> {"LEFT"}, dx |-> 0, dy |-> 20, scroll |-> 0],
      [pressed |-> {"LEFT"}, dx |-> 180, dy |-> -100, scroll |-> 0],
      [pressed |-> {"RIGHT"}, dx |-> 100, dy |-> 100, scroll |-> 0],
      [pressed |-> {"MIDDLE"}, dx |-> 0, dy |-> 100, scroll |-> 0],
      [pressed |-> {"MIDDLE"}, dx |-> 180, dy |-> 100, scroll |-> 0],
      [pressed |-> {}, dx |-> 0, dy |-> 0, scroll |-> 10],
      [pressed |-> {}, dx |-> 0, dy |-> 0, scroll |-> -10],
      [pressed |-> {"LEFT", "MIDDLE"}, dx |-> 180, dy |-> 100, scroll |-> 10] }

\* window.poll_events(): the callbacks of one gesture
poll_events(m, g) ==
    _scroll_callback(
        _mouse_button_callback(
            _cursor_pos_callback(m, m._current_x + g.dx, m._current_y + g.dy),
            g.pressed),
        0, g.scroll)

\* The cameras before the controller's calls of one update.
Cameras == [camera_2d |-> camera_2d, camera_3d |-> camera_3d, calls |-> <<>>]

\* The update is one the cameras' operators are defined on: a horizontal
\* pan happens where the view matrix is rational.
Computable(w, m, k, use_3d_camera) ==
    k._enabled =>
        IF use_3d_camera
        THEN is_dragging(m, "RIGHT") => PanComputable(Orbit3D(w, m, k).camera_3d)
        ELSE (is_dragging(m, "RIGHT") \/ is_dragging(m, "MIDDLE"))
                 => RightAngle(Rotate2D(w, m, k).camera_2d._rotation)

\* The last operation raised ZeroDivisionError: it is a call that ends with
\* _update_projection_matrix, or a frame whose update ended with such a call
\* (set_zoom, of the 2D scroll), and the matrix is not whole.
raised ==
    \/ /\ last_op \in { "camera_2d.set_viewport", "camera_2d.set_clip_planes",
                        "camera_2d.set_zoom", "camera_2d.reset" }
       /\ ZeroDivisionError(camera_2d)
    \/ /\ last_op \in { "camera_3d.set_viewport", "camera_3d.set_clip_planes",
                        "camera_3d.set_fov", "camera_3d.reset" }
       /\ ZeroDivisionError(camera_3d)
    \/ /\ last_op = "App._update"
       /\ camera_calls # <<>>
       /\ camera_calls[Len(camera_calls)].fn = "set_zoom"
       /\ ZeroDivisionError(camera_2d)

\* A frame or a call on a camera or the controller, named op: the rest of
\* the program does not take part.
CameraOp(op) ==
    /\ steps < MaxSteps
    /\ steps' = steps + 1
    /\ last_op' = op
    /\ gl_calls' = <<>>
    /\ UNCHANGED <<renderer, heap, gl_vaos, gl_bufs, added, ever_indexed,
                   geometries>>

\* App.run: the loop runs its frames until one raises.  A frame that raised
\* skipped self._mouse.update() and left the offsets it polled behind.
Running == scroll_offsets = <<>>

\* App._update: one frame of the main loop.  An exception of update() leaves
\* it before self._mouse.update().
Frame ==
    \E g \in Gestures, want_capture_mouse \in BOOLEAN, use_3d_camera \in BOOLEAN :
        /\ Running
        /\ CameraOp("App._update")
        /\ Computable(Cameras, poll_events(mouse, g),
                      set_enabled(controller, ~want_capture_mouse), use_3d_camera)
        /\ \E w \in { update(Cameras, poll_events(mouse, g),
                              set_enabled(controller, ~want_capture_mouse),
                              use_3d_camera) } :
               /\ camera_2d' = w.camera_2d
               /\ camera_3d' = w.camera_3d
               /\ camera_calls' = w.calls
        /\ controller' = set_enabled(controller, ~want_capture_mouse)
        /\ polled' = [mouse |-> poll_events(mouse, g),
                      use_3d_camera |-> use_3d_camera]
        /\ mouse' = IF raised' THEN poll_events(mouse, g)
                     ELSE Mouse_update(poll_events(mouse, g))
        /\ scroll_offsets' = IF raised' THEN Append(scroll_offsets, <<0, g.scroll>>)
                              ELSE <<>>

\* Camera2D.set_clip_planes(near, far)
SetClipPlanes2D ==
    \E planes \in { <<Float(-1), Float(1)>>, <<Float(1), Float(1)>> } :
        /\ CameraOp("camera_2d.set_clip_planes")
        /\ camera_2d' = set_clip_planes(camera_2d, planes[1], planes[2])
        /\ camera_calls' = <<[fn |-> "set_clip_planes", args |-> planes]>>
        /\ UNCHANGED <<camera_3d, mouse, controller, polled,
                   scroll_offsets>>

\* Camera2D.set_viewport(width, height)
SetViewport2D ==
    \E size \in { <<640, 480>>, <<0, 600>> } :
        /\ CameraOp("camera_2d.set_viewport")
        /\ camera_2d' = set_viewport(camera_2d, size[1], size[2])
        /\ camera_calls' = <<[fn |-> "set_viewport", args |-> <<size[1], size[2]>>]>>
        /\ UNCHANGED <<camera_3d, mouse, controller, polled,
                   scroll_offsets>>

\* Camera2D.set_position(x, y)
SetPosition2D ==
    /\ CameraOp("camera_2d.set_position")
    /\ camera_2d' = Camera2D_set_position(camera_2d, Q(3, 2), Float(-2))
    /\ camera_calls' = <<[fn |-> "set_position", args |-> <<Q(3, 2), Float(-2)>>]>>
    /\ UNCHANGED <<camera_3d, mouse, controller, polled,
                   scroll_offsets>>

\* Camera2D.set_zoom(zoom)
SetZoom ==
    \E zoom \in { Float(0), Float(-1), Float(2) } :
        /\ CameraOp("camera_2d.set_zoom")
        /\ camera_2d' = set_zoom(camera_2d, zoom)
        /\ camera_calls' = <<[fn |-> "set_zoom", args |-> <<zoom>>]>>
        /\ UNCHANGED <<camera_3d, mouse, controller, polled,
                   scroll_offsets>>

\* Camera2D.set_rotation(rotation)
SetRotation ==
    \E rotation \in { Float(400), Float(-30), Float(90), MinusTiny } :
        /\ CameraOp("camera_2d.set_rotation")
        /\ camera_2d' = set_rotation(camera_2d, rotation)
        /\ camera_calls' = <<[fn |-> "set_rotation", args |-> <<rotation>>]>>
        /\ UNCHANGED <<camera_3d, mouse, controller, polled,
                   scroll_offsets>>

\* Camera2D.reset()
Reset2D ==
    /\ CameraOp("camera_2d.reset")
    /\ camera_2d' = Camera2D_reset(camera_2d)
    /\ camera_calls' = <<[fn |-> "reset", args |-> <<>>]>>
    /\ UNCHANGED <<camera_3d, mouse, controller, polled,
                   scroll_offsets>>

\* Camera3D.set_viewport(width, height)
SetViewport3D ==
    \E size \in { <<640, 480>>, <<600, 0>>, <<0, 600>> } :
        /\ CameraOp("camera_3d.set_viewport")
        /\ camera_3d' = set_viewport(camera_3d, size[1], size[2])
        /\ camera_calls' = <<[fn |-> "set_viewport", args |-> <<size[1], size[2]>>]>>
        /\ UNCHANGED <<camera_2d, mouse, controller, polled,
                   scroll_offsets>>

\* Camera3D.set_clip_planes(near, far)
SetClipPlanes3D ==
    \E planes \in { <<Float(1), Float(50)>>, <<Float(5), Float(5)>> } :
        /\ CameraOp("camera_3d.set_clip_planes")
        /\ camera_3d' = set_clip_planes(camera_3d, planes[1], planes[2])
        /\ camera_calls' = <<[fn |-> "set_clip_planes", args |-> planes]>>
        /\ UNCHANGED <<camera_2d, mouse, controller, polled,
                   scroll_offsets>>

\* Camera3D.set_up_axis(axis)
SetUpAxis ==
    \E axis \in UpAxis :
        /\ CameraOp("camera_3d.set_up_axis")
        /\ camera_3d' = set_up_axis(camera_3d, axis)
        /\ camera_calls' = <<[fn |-> "set_up_axis", args |-> <<axis>>]>>
        /\ UNCHANGED <<camera_2d, mouse, controller, polled,
                   scroll_offsets>>

\* Camera3D.set_up(x, y, z)
SetUp ==
    /\ CameraOp("camera_3d.set_up")
    /\ camera_3d' = set_up(camera_3d, Float(0), Float(0), Float(1))
    /\ camera_calls' = <<[fn |-> "set_up", args |-> <<Float(0), Float(0), Float(1)>>]>>
    /\ UNCHANGED <<camera_2d, mouse, controller, polled,
                   scroll_offsets>>

\* Camera3D.set_fov(fov)
SetFov ==
    \E fov \in { Float(60), Float(0) } :
        /\ CameraOp("camera_3d.set_fov")
        /\ camera_3d' = set_fov(camera_3d, fov)
        /\ camera_calls' = <<[fn |-> "set_fov", args |-> <<fov>>]>>
        /\ UNCHANGED <<camera_2d, mouse, controller, polled,
                   scroll_offsets>>

\* Camera3D.translate(dx, dy, dz)
Translate ==
    \E d \in { <<Float(1), Float(2), Float(3)>>,
               <<Float(0), Float(0), Float(16777216)>> } :
        /\ CameraOp("camera_3d.translate")
        /\ camera_3d' = translate(camera_3d, d[1], d[2], d[3])
        /\ camera_calls' = <<[fn |-> "translate", args |-> <<d[1], d[2], d[3]>>]>>
        /\ UNCHANGED <<camera_2d, mouse, controller, polled,
                   scroll_offsets>>

\* Camera3D.set_pan(x, y, z)
SetPan ==
    \E p \in { <<Float(1), Float(2), Float(3)>>, <<Float(-1), Float(0), Q(1, 2)>> } :
        /\ CameraOp("camera_3d.set_pan")
        /\ camera_3d' = set_pan(camera_3d, p[1], p[2], p[3])
        /\ camera_calls' = <<[fn |-> "set_pan", args |-> <<p[1], p[2], p[3]>>]>>
        /\ UNCHANGED <<camera_2d, mouse, controller, polled,
                   scroll_offsets>>

\* Camera3D.set_orbit(azimuth, elevation, distance)
SetOrbit ==
    \E o \in { <<Float(0), Float(85), Float(5)>>,
               <<Float(90), Float(0), Float(150)>>,
               <<Float(0), Float(0), Float(5)>>,
               <<Float(0), Float(0), Float(0)>> } :
        /\ CameraOp("camera_3d.set_orbit")
        /\ camera_3d' = set_orbit(camera_3d, o[1], o[2], o[3])
        /\ camera_calls' = <<[fn |-> "set_orbit", args |-> <<o[1], o[2], o[3]>>]>>
        /\ UNCHANGED <<camera_2d, mouse, controller, polled,
                   scroll_offsets>>

\* Camera3D.reset()
Reset3D ==
    /\ CameraOp("camera_3d.reset")
    /\ camera_3d' = Camera3D_reset(camera_3d)
    /\ camera_calls' = <<[fn |-> "reset", args |-> <<>>]>>
    /\ UNCHANGED <<camera_2d, mouse, controller, polled,
                   scroll_offsets>>

\* CameraController.set_orbit_sensitivity(value)
SetOrbitSensitivity ==
    /\ CameraOp("set_orbit_sensitivity")
    /\ controller' = set_orbit_sensitivity(controller, Q(1, 10))
    /\ camera_calls' = <<>>
    /\ UNCHANGED <<camera_2d, camera_3d, mouse, polled,
                   scroll_offsets>>

\* CameraController.set_pan_sensitivity(value)
SetPanSensitivity ==
    /\ CameraOp("set_pan_sensitivity")
    /\ controller' = set_pan_sensitivity(controller, Q(1, 2))
    /\ camera_calls' = <<>>
    /\ UNCHANGED <<camera_2d, camera_3d, mouse, polled,
                   scroll_offsets>>

\* CameraController.set_zoom_sensitivity(value)
SetZoomSensitivity ==
    /\ CameraOp("set_zoom_sensitivity")
    /\ controller' = set_zoom_sensitivity(controller, Float(10))
    /\ camera_calls' = <<>>
    /\ UNCHANGED <<camera_2d, camera_3d, mouse, polled,
                   scroll_offsets>>

CameraNext ==
    \/ Frame
    \/ SetClipPlanes2D \/ SetViewport2D \/ SetPosition2D \/ SetZoom \/ SetRotation \/ Reset2D
    \/ SetViewport3D \/ SetClipPlanes3D \/ SetUpAxis \/ SetUp \/ SetFov
    \/ Translate \/ SetPan \/ SetOrbit \/ Reset3D
    \/ SetOrbitSensitivity \/ SetPanSensitivity \/ SetZoomSensitivity

CameraSpec == GpuInit /\ [][CameraNext]_vars

----------------------------------------------------------------------------
(* What the last operation did, read off the GL calls it issued *)

CallsTo(fn) == SelectSeq(gl_calls, LAMBDA c : c.fn = fn)

\* The draw calls of the last operation.
DrawCalls == SelectSeq(gl_calls,
                 LAMBDA c : c.fn \in {"glDrawElements", "glDrawArrays"})

\* The last operation created a merged buffer: build() ran to its end, called
\* directly or by flush().
Rebuilt == last_op \in {"build", "flush"} /\ Len(CallsTo("glGenVertexArrays")) > 0

\* The arrays the last operation handed to glBufferData for a target, <<>>
\* when it handed none.
Uploaded(target) ==
    LET ups == SelectSeq(gl_calls,
                   LAMBDA c : c.fn = "glBufferData" /\ c.what = target)
    IN  IF Len(ups) = 0 THEN <<>> ELSE ups[Len(ups)].data

\* The vertices queued before batch i, counted on what was added.
VerticesBefore(i) == SumSeq([ j \in 1..(i - 1) |-> Len(added[j].vertices) ])

----------------------------------------------------------------------------
(* C1 *)

\* The index arrays as added, each shifted by the number of vertices added
\* before it, one after the other.
ExpectedIndices ==
    concatenate([ i \in 1..Len(added) |->
        IF added[i].indices.some
        THEN [ k \in 1..Len(added[i].indices.val) |->
                 added[i].indices.val[k] + VerticesBefore(i) ]
        ELSE <<>> ])

\* C1: after build() on a queue of indexed batches, the merged index array
\* is the concatenation, in insertion order, of each batch's indices plus the
\* number of vertices of the batches added before it, and _total_indices is
\* its length.
C1_IndexRebasing ==
    (Rebuilt /\ \A i \in 1..Len(added) : added[i].indices.some)
        => /\ Uploaded("GL_ELEMENT_ARRAY_BUFFER") = ExpectedIndices
           /\ _total_indices = Len(ExpectedIndices)

\* C1 witness: two 3-vertex batches with indices [0,1,2] were built and the
\* merged index array is [0,1,2,3,4,5].
C1_Witness ==
    /\ last_op = "build"
    /\ Len(added) = 2
    /\ \A i \in 1..2 : added[i].indices = Some(<<0,1,2>>)
                       /\ Len(added[i].vertices) = 3
    /\ Uploaded("GL_ELEMENT_ARRAY_BUFFER") = <<0,1,2,3,4,5>>

----------------------------------------------------------------------------
(* C2 *)

\* o is the vertex v after the matrix m: each position times w equals the
\* matrix row applied to (x, y, z, 1), w being the fourth row applied to it,
\* and the colours are those of v.
IsTransformed(o, v, m) ==
    LET p == <<v[1], v[2], v[3], 1>>
        w == Dot(m[4], p)
    IN  /\ w # 0
        /\ \A c \in 1..3 : /\ o[c][2] > 0
                           /\ o[c][1] * w = Dot(m[c], p) * o[c][2]
        /\ \A c \in 4..6 : o[c] = <<v[c], 1>>
        /\ m = Identity => \A c \in 1..3 : o[c] = <<v[c], 1>>
        /\ m = Translation123 => \A c \in 1..3 : o[c] = <<v[c] + c, 1>>

\* C2: build() replaces every vertex position of every queued batch by
\* model_matrix * (x,y,z,1) over the resulting w and copies the colours.
C2_TransformApplied ==
    Rebuilt =>
        /\ Len(Uploaded("GL_ARRAY_BUFFER")) = VerticesBefore(Len(added) + 1)
        /\ \A i \in 1..Len(added) : \A k \in 1..Len(added[i].vertices) :
             IsTransformed(Uploaded("GL_ARRAY_BUFFER")[VerticesBefore(i) + k],
                           added[i].vertices[k], added[i].transform)

\* C2 witness: the vertex (1,2,3) under translation(+1,+2,+3) was merged to
\* (2,4,6), colour (1,0,0) kept.
C2_Witness ==
    /\ Rebuilt
    /\ Len(added) = 1
    /\ added[1].vertices = OneVertex /\ added[1].transform = Translation123
    /\ Uploaded("GL_ARRAY_BUFFER") =
         << << <<2,1>>, <<4,1>>, <<6,1>>, <<1,1>>, <<0,1>>, <<0,1>> >> >>

----------------------------------------------------------------------------
(* C3 *)

\* The merged vertex array of the batches as they were added.
MergedAsAdded ==
    concatenate([ i \in 1..Len(added) |->
                    _apply_transform(added[i].vertices, added[i].transform) ])

\* C3: whatever the caller does to its arrays after add(), every queued batch
\* holds what it was given, and build() merges exactly that.
C3_NoAliasing ==
    /\ Len(_batches) = Len(added)
    /\ \A i \in 1..Len(added) : Held(heap, _batches[i]) = added[i]
    /\ Rebuilt => /\ Uploaded("GL_ARRAY_BUFFER") = MergedAsAdded
                  /\ Uploaded("GL_ELEMENT_ARRAY_BUFFER") = ExpectedIndices

\* C3 witness: a triangle was added with its indices, the caller then emptied
\* its arrays, and build() ran.
C3_Witness ==
    /\ last_op = "build" /\ Rebuilt
    /\ Len(added) > 0
    /\ added[1].vertices = Triangle /\ added[1].indices.some
    /\ heap[GeoVertices] = NoVertices

----------------------------------------------------------------------------
(* C4 *)

\* C4 as claimed: a flush() with at least one batch queued issues exactly one
\* draw call.
C4_FlushDrawsOnce_Claimed ==
    (last_op = "flush" /\ Len(_batches) > 0) => Len(DrawCalls) = 1

\* C4, amended: a flush() with at least one batch queued, on a renderer that
\* is dirty or still has its buffer (cleanup() has not released it since the
\* last build), first builds if dirty and then issues exactly one draw call:
\* glDrawElements over _total_indices when the merged index array is not
\* empty, glDrawArrays over _total_vertices otherwise.
C4_FlushDrawsOnce ==
    [][ (last_op' = "flush" /\ Len(_batches) > 0 /\ (_is_dirty \/ _vao # 0))
          => /\ Len(DrawCalls)' = 1
             /\ ~_is_dirty'
             /\ _is_dirty =>
                  /\ Len(CallsTo("glGenVertexArrays"))' = 1
                  /\ gl_calls'[Len(gl_calls') - 1] = DrawCalls'[1]
                  /\ Len(Uploaded("GL_ARRAY_BUFFER"))' = _total_vertices'
             /\ ~_is_dirty => Len(gl_calls') = 3
             /\ DrawCalls'[1] =
                  IF _use_indices' /\ _total_indices' > 0
                  THEN Call("glDrawElements", _primitive_type,
                            _total_indices', <<>>)
                  ELSE Call("glDrawArrays", _primitive_type,
                            _total_vertices', <<>>)
             /\ _total_vertices' = VerticesBefore(Len(added) + 1)' ]_vars

\* C4 witness: a flush() of a dirty renderer with batches queued has built
\* and has drawn once.
C4_Witness ==
    /\ last_op = "flush"
    /\ Len(_batches) = MaxBatches
    /\ Rebuilt
    /\ Len(DrawCalls) = 1

----------------------------------------------------------------------------
(* C5 *)

\* The draws of the last operation are all indexed.
DrawsIndexed == \A k \in 1..Len(DrawCalls) : DrawCalls[k].fn = "glDrawElements"

\* C5 as claimed: once an add() has supplied an index array, every flush()
\* that draws issues an indexed draw.
C5_IndexedSticky_Claimed ==
    (last_op = "flush" /\ ever_indexed /\ Len(DrawCalls) > 0) => DrawsIndexed

\* C5, amended: once an accepted add() has supplied an index array,
\* _use_indices stays true whatever follows, and a later flush() that draws
\* issues an indexed draw exactly when some queued batch has a non-empty
\* index array; with none (after clear() and adds without indices, or with
\* empty index arrays only) it issues an array draw.
C5_IndexedSticky ==
    /\ ever_indexed => _use_indices
    /\ (last_op = "flush" /\ ever_indexed /\ Len(DrawCalls) > 0)
         => (DrawsIndexed <=>
               \E i \in 1..Len(added) : /\ added[i].indices.some
                                        /\ Len(added[i].indices.val) > 0)

\* C5 witness: after an add() with indices, a flush() drew without indices.
C5_Witness ==
    /\ last_op = "flush" /\ ever_indexed /\ _use_indices
    /\ Len(DrawCalls) = 1 /\ DrawCalls[1].fn = "glDrawArrays"

----------------------------------------------------------------------------
(* C6 *)

\* C6 as claimed: after build() or clear() returns, no batch is queued.
C6_Lifecycle_Claimed ==
    last_op \in {"build", "clear"} => batch_count = 0

\* C6, amended: a batch is created by an accepted add() and discarded by
\* clear() only: batch_count is the number of accepted adds since the last
\* clear(), it is 0 after clear(), and build() keeps every batch queued,
\* recording its vertex offset.
C6_Lifecycle ==
    /\ batch_count = Len(added)
    /\ last_op = "clear" => batch_count = 0
    /\ Rebuilt => \A i \in 1..batch_count :
                     /\ _batches[i].vertex_offset = VerticesBefore(i)
                     /\ _batches[i].vertex_count = Len(added[i].vertices)

\* C6 witness: build() has merged a full queue and the batches are still
\* queued.
C6_Witness ==
    /\ last_op = "build" /\ Rebuilt
    /\ batch_count = MaxBatches

----------------------------------------------------------------------------
(* C7 *)

\* A GL object of the renderer was released in the step.
Released ==
    \/ ~(gl_vaos \subseteq gl_vaos') \/ ~(gl_bufs \subseteq gl_bufs')
    \/ (_vao # 0 /\ _vao' # _vao) \/ (_vbo # 0 /\ _vbo' # _vbo)
    \/ (_ebo # 0 /\ _ebo' # _ebo)

\* C7: clear() empties the queue, zeroes the totals and marks the renderer
\* dirty, and leaves vao, vbo, ebo and the GL objects alone; a handle is
\* released only where cleanup() runs: in cleanup() itself and in the
\* cleanup() a build starts its upload with.
C7_ClearKeepsBuffer ==
    [][ /\ last_op' = "clear" =>
              /\ batch_count' = 0
              /\ _total_vertices' = 0 /\ _total_indices' = 0
              /\ _is_dirty'
              /\ UNCHANGED <<_vao, _vbo, _ebo, gl_vaos, gl_bufs>>
              /\ gl_calls' = <<>>
        /\ Released =>
              /\ \/ last_op' = "cleanup"
                 \/ (last_op' \in {"build", "flush"} /\ _is_dirty
                     /\ batch_count > 0)
              /\ Len(gl_calls') > 0
              /\ gl_calls'[1].fn \in {"glDeleteBuffers", "glDeleteVertexArrays"}
      ]_vars

\* C7 witness: clear() has returned and the buffer uploaded before it is
\* still allocated.
C7_Witness ==
    /\ last_op = "clear"
    /\ _vao # 0 /\ _vbo # 0 /\ _ebo # 0
    /\ _vao \in gl_vaos /\ {_vbo, _ebo} \subseteq gl_bufs

----------------------------------------------------------------------------
(* C8 *)

\* C8: add() with an empty vertex array changes nothing: not the queue, the
\* dirty flag, the indexed-mode flag, the totals, the handles or the arrays,
\* with an index array or with None.
C8_EmptyAddNoOp ==
    [][ (last_op' \in {"add_geometry(indices)", "add_geometry(None)"}
         /\ Len(heap[GeoVertices]) = 0)
          => /\ UNCHANGED <<renderer, heap, gl_vaos, gl_bufs, added>>
             /\ gl_calls' = <<>> ]_vars

\* C8 witness: add() was called with an empty vertex array and an index
\* array, on a renderer not yet in indexed mode.
C8_Witness ==
    /\ last_op = "add_geometry(indices)"
    /\ Len(heap[GeoVertices]) = 0
    /\ ~_use_indices /\ ~_is_dirty

----------------------------------------------------------------------------
(* C9 *)

\* C9: with no batch queued, build() and flush() issue no GL call at all (no
\* buffer is created, nothing is drawn) and the totals are and stay 0, also
\* while a buffer uploaded before the clear() is still allocated.
C9_EmptyQueueNoWork ==
    [][ (batch_count = 0 /\ last_op' \in {"build", "flush"})
          => /\ gl_calls' = <<>>
             /\ _total_vertices = 0 /\ _total_indices = 0
             /\ UNCHANGED <<renderer, heap, gl_vaos, gl_bufs>> ]_vars

\* C9 witness: flush() ran with an empty queue while the buffer of an
\* earlier build was still allocated.
C9_Witness ==
    /\ last_op = "flush"
    /\ batch_count = 0
    /\ _vao # 0 /\ _vao \in gl_vaos

----------------------------------------------------------------------------
(* C10 *)

\* C10: build() on a renderer that is not dirty changes nothing and issues
\* no GL call; so a build() or a flush() right after a build() does not
\* build again: it creates and deletes no GL object and leaves the totals,
\* the batches and their offsets as they are.
C10_BuildNotDirtyNoOp ==
    [][ /\ (~_is_dirty /\ last_op' = "build")
            => /\ UNCHANGED <<renderer, heap, gl_vaos, gl_bufs>>
               /\ gl_calls' = <<>>
        /\ (last_op = "build" /\ last_op' \in {"build", "flush"})
            => /\ UNCHANGED <<renderer, heap, gl_vaos, gl_bufs>>
               /\ \A k \in 1..Len(gl_calls') :
                    gl_calls'[k].fn \in {"glBindVertexArray", "glDrawElements",
                                         "glDrawArrays"}
               /\ last_op' = "build" => gl_calls' = <<>> ]_vars

\* C10 witness: a second build() in a row has done nothing, on a clean
\* renderer with its merged buffer in place.
C10_Witness ==
    /\ last_op = "build"
    /\ ~_is_dirty /\ _vao # 0 /\ batch_count > 0
    /\ gl_calls = <<>>

----------------------------------------------------------------------------
(* C11 *)

\* The calls to fn with the name n among calls.
DeletesIn(calls, fn, n) ==
    Len(SelectSeq(calls, LAMBDA c : c.fn = fn /\ c.n = n))

\* calls holds one delete call for each of the handles that is not 0, and
\* nothing else.
DeletedOnce(calls, vao, vbo, ebo) ==
    /\ Len(calls) = (IF vao # 0 THEN 1 ELSE 0) + (IF vbo # 0 THEN 1 ELSE 0)
                    + (IF ebo # 0 THEN 1 ELSE 0)
    /\ vao # 0 => DeletesIn(calls, "glDeleteVertexArrays", vao) = 1
    /\ vbo # 0 => DeletesIn(calls, "glDeleteBuffers", vbo) = 1
    /\ ebo # 0 => DeletesIn(calls, "glDeleteBuffers", ebo) = 1

\* The handles of o are live objects of the GL context, each its own.
HandlesLive(o) ==
    /\ o._vao # 0 => o._vao \in gl_vaos
    /\ o._vbo # 0 => o._vbo \in gl_bufs
    /\ o._ebo # 0 => o._ebo \in gl_bufs /\ o._ebo # o._vbo

\* The step was a cleanup() of the object that was o and is now p: every
\* handle o held was live and is deleted exactly once, p's handles are 0,
\* and the GL context loses those names and no other.
CleanedUp(o, p) ==
    /\ HandlesLive(o)
    /\ DeletedOnce(gl_calls', o._vao, o._vbo, o._ebo)
    /\ p._vao = 0 /\ p._vbo = 0 /\ p._ebo = 0
    /\ gl_vaos' = gl_vaos \ {o._vao}
    /\ gl_bufs' = gl_bufs \ {o._vbo, o._ebo}

\* C11: BatchRenderer.cleanup() and GeometryBase.cleanup() delete each live
\* handle of their object exactly once and set the handles to 0, touching
\* nothing of the other objects; a second call in a row issues no GL call
\* and changes nothing.
C11_CleanupIdempotent ==
    [][ /\ last_op' = "cleanup" =>
              /\ CleanedUp(Self, Self')
              /\ UNCHANGED <<_batches, _is_dirty, _use_indices,
                             _total_vertices, _total_indices, heap,
                             geometries>>
              /\ last_op = "cleanup" =>
                   gl_calls' = <<>>
                   /\ UNCHANGED <<renderer, heap, gl_vaos, gl_bufs>>
        /\ last_op' = "point.cleanup" =>
              /\ CleanedUp(point_geometry, point_geometry')
              /\ ~point_geometry'._is_initialized
              /\ UNCHANGED <<renderer, heap, rectangle_geometry>>
              /\ last_op = "point.cleanup" =>
                   gl_calls' = <<>>
                   /\ UNCHANGED <<geometries, gl_vaos, gl_bufs>>
        /\ last_op' = "rectangle.cleanup" =>
              /\ CleanedUp(rectangle_geometry, rectangle_geometry')
              /\ ~rectangle_geometry'._is_initialized
              /\ UNCHANGED <<renderer, heap, point_geometry>>
              /\ last_op = "rectangle.cleanup" =>
                   gl_calls' = <<>>
                   /\ UNCHANGED <<geometries, gl_vaos, gl_bufs>>
      ]_vars

\* C11 witness: the rectangle's cleanup() has deleted its three objects
\* while the renderer, built and then cleaned up twice, holds none and the
\* point geometry still holds its own.
C11_Witness ==
    /\ last_op = "rectangle.cleanup"
    /\ Len(gl_calls) = 3
    /\ rectangle_geometry._vao = 0 /\ ~rectangle_geometry._is_initialized
    /\ _vao = 0 /\ _total_vertices > 0 /\ ~_is_dirty
    /\ point_geometry._vao # 0 /\ point_geometry._vao \in gl_vaos

----------------------------------------------------------------------------
(* The camera controller's updates *)

\* The frame just run called update() for the 3D camera while enabled.
Updated3D == last_op' = "App._update" /\ controller'._enabled /\ polled'.use_3d_camera

\* The frame just run called update() for the 2D camera while enabled.
Updated2D == last_op' = "App._update" /\ controller'._enabled /\ ~polled'.use_3d_camera

\* x brought into [lo, hi].
Clamped(x, lo, hi) == IF QLess(x, lo) THEN lo ELSE IF QLess(hi, x) THEN hi ELSE x

\* C12: in a 3D update with the left button held, the first call is
\* set_orbit with the elevation get_orbit gave plus dy times the orbit
\* sensitivity, brought into [-89, 89]; from elevation 85 a drag worth +10
\* degrees passes exactly 89.
C12_ElevationClamped ==
    [][ Updated3D /\ is_dragging(polled'.mouse, "LEFT") =>
          /\ camera_calls' # <<>>
          /\ camera_calls'[1].fn = "set_orbit"
          /\ camera_calls'[1].args[2] =
                 Clamped(QAdd(get_orbit(camera_3d)[2],
                              QMul(Float(delta(polled'.mouse)[2]),
                                   controller._orbit_sensitivity)),
                         Float(-89), Float(89))
          /\ ( /\ get_orbit(camera_3d)[2] = Float(85)
               /\ QMul(Float(delta(polled'.mouse)[2]),
                       controller._orbit_sensitivity) = Float(10) )
                => camera_calls'[1].args[2] = Float(89)
      ]_vars

\* C12 witness: a left drag of dy = 20 at sensitivity 0.5, worth +10
\* degrees, has passed elevation 89 to set_orbit: the camera was at 85.
C12_Witness ==
    /\ last_op = "App._update" /\ controller._enabled /\ polled.use_3d_camera
    /\ is_dragging(polled.mouse, "LEFT")
    /\ delta(polled.mouse)[2] = 20 /\ controller._orbit_sensitivity = Q(1, 2)
    /\ camera_calls[1].fn = "set_orbit"
    /\ camera_calls[1].args[2] = Float(89)
    /\ camera_3d._position.orbit = Some(<<Float(0), Float(89), Float(5)>>)

\* The 3D camera as the scroll step of the update just run found it: after
\* the drags of the same update.
BeforeDolly ==
    Height3D(Pan3D(Orbit3D(Cameras, polled'.mouse, controller'),
                   polled'.mouse, controller'),
             polled'.mouse, controller').camera_3d

\* The last call the controller made.
LastCall(calls) == calls[Len(calls)]

\* C13: a 3D update with a non-zero scroll ends with a set_orbit call whose
\* distance is in [0.5, 100], whatever the distance, the scroll and the zoom
\* sensitivity were, and whose azimuth and elevation are those get_orbit
\* returned.
C13_ScrollDistanceClamped ==
    [][ Updated3D /\ scroll(polled'.mouse)[2] # 0 =>
          /\ camera_calls' # <<>>
          /\ LastCall(camera_calls').fn = "set_orbit"
          /\ ~QLess(LastCall(camera_calls').args[3], Q(1, 2))
          /\ ~QLess(Float(100), LastCall(camera_calls').args[3])
          /\ LastCall(camera_calls').args[1] = get_orbit(BeforeDolly)[1]
          /\ LastCall(camera_calls').args[2] = get_orbit(BeforeDolly)[2]
      ]_vars

\* C13 witness: a scroll of 10 at the default zoom sensitivity has passed
\* distance 0.5, the floor: the camera was at distance 0.
C13_Witness ==
    /\ last_op = "App._update" /\ controller._enabled /\ polled.use_3d_camera
    /\ scroll(polled.mouse)[2] = 10
    /\ controller._zoom_sensitivity = Q(1, 10)
    /\ LastCall(camera_calls).fn = "set_orbit"
    /\ LastCall(camera_calls).args[3] = Q(1, 2)
    /\ get_orbit(camera_3d)[3] = Q(1, 2)

----------------------------------------------------------------------------
(* The cameras' own invariants *)

\* C14: the zoom of the 2D camera is never under 0.01: as constructed,
\* after reset(), after set_zoom(z) for any z (set_zoom(0.0) leaves exactly
\* 0.01) and after the controller's scroll.
C14_ZoomFloor ==
    [][ /\ ~QLess(camera_2d'._zoom, Q(1, 100))
        /\ ~QLess(Camera2D(800, 600)._zoom, Q(1, 100))
        /\ set_zoom(camera_2d, Float(0))._zoom = Q(1, 100)
        /\ last_op' = "camera_2d.reset" => camera_2d'._zoom = Float(1)
        /\ (Updated2D /\ scroll(polled'.mouse)[2] # 0) =>
              /\ LastCall(camera_calls').fn = "set_zoom"
              /\ camera_2d'._zoom = LastCall(camera_calls').args[1]
              /\ ~QLess(camera_2d'._zoom, Q(1, 10))
      ]_vars

\* C14 witness: set_zoom(0.0) or set_zoom(-1.0) has left the zoom at 0.01,
\* and a scroll of the controller before it had zoomed.
C14_Witness ==
    /\ last_op = "camera_2d.set_zoom"
    /\ camera_2d._zoom = Q(1, 100)
    /\ ~polled.use_3d_camera /\ scroll(polled.mouse)[2] # 0

\* C15: the rotation of the 2D camera is always in [0, 360): set_rotation(r)
\* stores r modulo 360 (400 gives 40, -30 gives 330), and so does the
\* controller's left drag, which sets the rotation less dx times the
\* rotation sensitivity.
C15_RotationNormalized ==
    [][ /\ ~QLess(camera_2d'._rotation, Float(0))
        /\ QLess(camera_2d'._rotation, Float(360))
        /\ set_rotation(camera_2d, Float(400))._rotation = Float(40)
        /\ set_rotation(camera_2d, Float(-30))._rotation = Float(330)
        /\ (Updated2D /\ is_dragging(polled'.mouse, "LEFT")) =>
              /\ camera_calls'[1].fn = "set_rotation"
              /\ camera_calls'[1].args[1] =
                     QSub(camera_2d._rotation,
                          QMul(Float(delta(polled'.mouse)[1]),
                               controller._rotation_sensitivity))
              /\ camera_2d'._rotation
                     = QMod(camera_calls'[1].args[1], Float(360))
      ]_vars

\* The vector of the translate call just made, as the float32 array
\* translate makes of it.
TranslateDelta ==
    Vec3(camera_calls'[1].args[1], camera_calls'[1].args[2],
         camera_calls'[1].args[3])

\* translate(dx, dy, dz) leaves these alone.
TranslateFrame ==
    /\ camera_3d'._position.orbit = camera_3d._position.orbit
    /\ camera_3d'._up = camera_3d._up
    /\ camera_3d'._fov = camera_3d._fov
    /\ camera_3d'._near = camera_3d._near
    /\ camera_3d'._far = camera_3d._far

\* Neither sum of the translate call just made has been rounded.
TranslateExact ==
    \A i \in 1..3 :
        /\ camera_3d'._position.at[i]
               = QAdd(camera_3d._position.at[i], TranslateDelta[i])
        /\ camera_3d'._target[i] = QAdd(camera_3d._target[i], TranslateDelta[i])

PanOffset ==
    Vec3(camera_calls'[1].args[1], camera_calls'[1].args[2],
         camera_calls'[1].args[3])

\* C17: set_pan(x, y, z) is absolute: whatever the position and the target
\* were, the position is then (0, 0, 5) + (x, y, z) and the target
\* (x, y, z), and the same call again changes nothing.
C17_SetPanAbsolute ==
    [][ last_op' = "camera_3d.set_pan" =>
          /\ camera_3d'._position
                 = At(VAdd(<<Float(0), Float(0), Float(5)>>, PanOffset))
          /\ camera_3d'._target = PanOffset
          /\ set_pan(camera_3d', camera_calls'[1].args[1],
                     camera_calls'[1].args[2], camera_calls'[1].args[3])
                 = camera_3d'
      ]_vars

\* C17 witness: set_pan(1, 2, 3) has placed a camera that a left drag of
\* the frame before had put into orbit.
C17_Witness ==
    /\ last_op = "camera_3d.set_pan"
    /\ camera_calls[1].args = <<Float(1), Float(2), Float(3)>>
    /\ polled.use_3d_camera /\ controller._enabled
    /\ is_dragging(polled.mouse, "LEFT")
    /\ camera_3d._position = At(<<Float(1), Float(2), Float(8)>>)
    /\ camera_3d._target = <<Float(1), Float(2), Float(3)>>

\* C18: reset() restores the defaults: of the 3D camera position (0, 0, 5),
\* target (0, 0, 0), up (0, 1, 0) and fov 45; of the 2D camera position
\* (0, 0), zoom 1 and rotation 0.  The clip planes and the viewport (width,
\* height, aspect) of the camera stay as they were.
C18_ResetRestoresDefaults ==
    [][ /\ last_op' = "camera_3d.reset" =>
              /\ camera_3d'._position
                     = [at |-> <<Float(0), Float(0), Float(5)>>, orbit |-> None]
              /\ camera_3d'._target = <<Float(0), Float(0), Float(0)>>
              /\ camera_3d'._up = <<Float(0), Float(1), Float(0)>>
              /\ camera_3d'._fov = Float(45)
              /\ camera_3d'._near = camera_3d._near
              /\ camera_3d'._far = camera_3d._far
              /\ camera_3d'._aspect = camera_3d._aspect
              /\ camera_3d'._width = camera_3d._width
              /\ camera_3d'._height = camera_3d._height
        /\ last_op' = "camera_2d.reset" =>
              /\ camera_2d'._position_x = Float(0)
              /\ camera_2d'._position_y = Float(0)
              /\ camera_2d'._zoom = Float(1)
              /\ camera_2d'._rotation = Float(0)
              /\ camera_2d'._near = camera_2d._near
              /\ camera_2d'._far = camera_2d._far
              /\ camera_2d'._aspect = camera_2d._aspect
      ]_vars

\* C18 witness: the 3D camera has been reset from another place, or with
\* clip planes or a viewport that are not the constructor's, which it
\* keeps.
C18_Witness ==
    /\ last_op = "camera_3d.reset"
    /\ steps = 2
    /\ camera_3d._position = At(<<Float(0), Float(0), Float(5)>>)
    /\ \/ camera_3d._near = Float(1) /\ camera_3d._far = Float(50)
       \/ camera_3d._aspect = Float(1)

\* C19: a frame whose update() ran while the controller was disabled made
\* no call on a camera (no set_orbit, translate, set_rotation, set_position
\* or set_zoom) and left both cameras as they were, whatever the buttons
\* held, the pointer delta and the scroll.
C19_DisabledUpdateIsInert ==
    [][ last_op' = "App._update" /\ ~controller'._enabled =>
          /\ camera_calls' = <<>>
          /\ camera_2d' = camera_2d
          /\ camera_3d' = camera_3d
      ]_vars

\* C19 witness: a disabled update has run with the left and middle buttons
\* dragging, a pointer delta and a scroll, and no call was made.
C19_Witness ==
    /\ last_op = "App._update" /\ ~controller._enabled
    /\ is_dragging(polled.mouse, "LEFT") /\ is_dragging(polled.mouse, "MIDDLE")
    /\ delta(polled.mouse) = <<180, 100>>
    /\ scroll(polled.mouse)[2] = 10
    /\ camera_calls = <<>>

\* Where in the calls of a 3D update the middle drag's call stands: after
\* the left drag's set_orbit and the right drag's translate.
HeightCall(m) ==
    1 + (IF is_dragging(m, "LEFT") THEN 1 ELSE 0)
      + (IF is_dragging(m, "RIGHT") THEN 1 ELSE 0)

\* C20: a 3D update with the middle button dragging calls translate with
\* (0, dy * pan sensitivity, 0) when the up axis is Y and with
\* (0, 0, dy * pan sensitivity) when it is Z: the two other components are
\* 0 and dx takes no part.  When no other button is held it is the only
\* translate call of the update.
C20_HeightAlongUpAxis ==
    [][ Updated3D /\ is_dragging(polled'.mouse, "MIDDLE") =>
          /\ Len(camera_calls') >= HeightCall(polled'.mouse)
          /\ camera_calls'[HeightCall(polled'.mouse)].fn = "translate"
          /\ camera_calls'[HeightCall(polled'.mouse)].args =
                 IF camera_3d.up_axis = "Z_UP"
                 THEN << Float(0), Float(0),
                         QMul(Float(delta(polled'.mouse)[2]),
                              controller._pan_sensitivity) >>
                 ELSE << Float(0),
                         QMul(Float(delta(polled'.mouse)[2]),
                              controller._pan_sensitivity),
                         Float(0) >>
          /\ ~is_dragging(polled'.mouse, "RIGHT") =>
                 Cardinality({ i \in 1..Len(camera_calls') :
                                 camera_calls'[i].fn = "translate" }) = 1
      ]_vars

\* C20 witness: with the up axis Z, a middle drag of (180, 100) at pan
\* sensitivity 0.01 has called translate(0, 0, 1) and nothing else, and the
\* camera has moved from (0, 0, 5) to (0, 0, 6).
C20_Witness ==
    /\ last_op = "App._update" /\ controller._enabled /\ polled.use_3d_camera
    /\ camera_3d.up_axis = "Z_UP"
    /\ is_dragging(polled.mouse, "MIDDLE")
    /\ delta(polled.mouse) = <<180, 100>>
    /\ camera_calls = <<[fn |-> "translate",
                         args |-> <<Float(0), Float(0), Float(1)>>]>>
    /\ camera_3d._position = At(<<Float(0), Float(0), Float(6)>>)
    /\ camera_3d._target = <<Float(0), Float(0), Float(1)>>

----------------------------------------------------------------------------
(* Degenerate inputs *)

\* C21: no camera mutator and no update of the controller raises, whatever
\* the numbers passed: after every operation, with near = far, a viewport of
\* width 0, a zoom <= 0 or the position at the target among the inputs, the
\* operation has returned normally.
C21_NoMutatorRaises == ~raised

\* The forward vector or the right vector of the 3D camera has zero
\* length: the position is the target, or forward is parallel to up.
DegenerateView(c) ==
    /\ Camera3D_view_matrix(c).known
    /\ Camera3D_view_matrix(c).right = <<Float(0), Float(0), Float(0)>>

\* C22: when a call on the 3D camera leaves it with a forward or right
\* vector of zero length, the rows of the view matrix (right, up, forward)
\* are those from before the call.
C22_DegenerateKeepsBasis ==
    [][ camera_3d' # camera_3d /\ DegenerateView(camera_3d') =>
          Camera3D_view_matrix(camera_3d') = Camera3D_view_matrix(camera_3d)
      ]_vars

\* The aspect of the camera is width / height, or 1 when the height is not
\* positive.
AspectOfViewport(c) ==
    c._aspect = (IF c._height > 0 THEN Q(c._width, c._height) ELSE Float(1))

\* The projection matrix of the camera is whole and its entry [0,0] is the
\* one computed from the aspect the camera has: zoom / aspect for Camera2D,
\* f / aspect for Camera3D.
ProjectionOfAspect(c) ==
    /\ ~ZeroDivisionError(c)
    /\ IF "_zoom" \in DOMAIN c
       THEN QMul(c._projection_matrix.m00, c._aspect) = c._zoom
       ELSE c._projection_matrix.m00 = <<c._fov, c._aspect>>

\* C23: the aspect of both cameras is width / height after construction and
\* after every call, and 1 when the height is not positive; and every
\* set_viewport leaves a projection matrix recomputed with the new aspect.
C23_AspectFollowsViewport ==
    /\ AspectOfViewport(camera_2d) /\ AspectOfViewport(camera_3d)
    /\ [][ /\ AspectOfViewport(camera_2d') /\ AspectOfViewport(camera_3d')
           /\ last_op' = "camera_2d.set_viewport" => ProjectionOfAspect(camera_2d')
           /\ last_op' = "camera_3d.set_viewport" => ProjectionOfAspect(camera_3d')
         ]_vars

----------------------------------------------------------------------------
(* The index buffers *)

\* Every index of the array is under n.
IndicesBelow(indices, n) == \A k \in 1..Len(indices) : indices[k] < n

\* C24: the indices get_vertex_data generates for the rectangle, the cube
\* and a sphere (whose segments are >= 3 and rings >= 2 whatever was asked
\* for) are all under the number of vertices it generates with them, which
\* for the sphere is (rings + 1) * (segments + 1); and after build() every
\* index of the merged index array is under _total_vertices.
C24_IndicesInRange ==
    /\ heap[GeoVertices] = get_vertex_data(geometry).vertices
    /\ heap[GeoIndices] = get_vertex_data(geometry).indices
    /\ IndicesBelow(heap[GeoIndices], Len(heap[GeoVertices]))
    /\ geometry.type = "sphere" =>
          /\ geometry._segments >= 3 /\ geometry._rings >= 2
          /\ Len(heap[GeoVertices])
                 = (geometry._rings + 1) * (geometry._segments + 1)
    /\ Rebuilt =>
          IndicesBelow(Uploaded("GL_ELEMENT_ARRAY_BUFFER"), _total_vertices)

\* C24 witness: a sphere of 4 segments and 3 rings, whose last index is its
\* last vertex, was added after another geometry and build() merged the
\* two: the largest merged index is the last of the vertices.
C24_Witness ==
    /\ last_op = "build" /\ Rebuilt
    /\ Len(added) = 2
    /\ added[2].vertices = Sphere_vertices(SphereGeometry(0, 4, 3))
    /\ added[2].indices = Some(Sphere_indices(SphereGeometry(0, 4, 3)))
    /\ Len(added[2].vertices) = 20
    /\ \E k \in 1..Len(Uploaded("GL_ELEMENT_ARRAY_BUFFER")) :
          Uploaded("GL_ELEMENT_ARRAY_BUFFER")[k] = _total_vertices - 1

----------------------------------------------------------------------------
(* The mouse between two updates: the window's callbacks arrive one by one *)

\* The scroll offsets received between two updates of the mouse.
MaxOffsets == 3

\* A callback or an update of the mouse, named op: the rest of the program
\* does not take part.
MouseOp(op) ==
    /\ last_op' = op
    /\ gl_calls' = <<>>
    /\ UNCHANGED <<renderer, heap, gl_vaos, gl_bufs, added, ever_indexed,
                   geometries, camera_2d, camera_3d, controller,
                   camera_calls, polled, steps>>

\* glfw calls _mouse_button_callback: the buttons held become pressed
MouseButtonCallback ==
    \E pressed \in { {}, {"LEFT"}, {"LEFT", "MIDDLE"} } :
        /\ pressed # { b \in MouseButton : mouse._button_pressed[b] }
        /\ mouse' = _mouse_button_callback(mouse, pressed)
        /\ MouseOp("_mouse_button_callback")
        /\ UNCHANGED scroll_offsets

\* glfw calls _cursor_pos_callback
CursorPosCallback ==
    \E pos \in { <<0, 0>>, <<10, 20>> } :
        /\ pos # <<mouse._current_x, mouse._current_y>>
        /\ mouse' = _cursor_pos_callback(mouse, pos[1], pos[2])
        /\ MouseOp("_cursor_pos_callback")
        /\ UNCHANGED scroll_offsets

\* glfw calls _scroll_callback
ScrollCallback ==
    \E offset \in { <<0, 1>>, <<0, -3>>, <<2, 0>> } :
        /\ Len(scroll_offsets) < MaxOffsets
        /\ mouse' = _scroll_callback(mouse, offset[1], offset[2])
        /\ scroll_offsets' = Append(scroll_offsets, offset)
        /\ MouseOp("_scroll_callback")

\* App._update calls self._mouse.update()
MouseUpdate ==
    /\ mouse' = Mouse_update(mouse)
    /\ scroll_offsets' = <<>>
    /\ MouseOp("mouse.update")

MouseNext ==
    \/ MouseButtonCallback
    \/ CursorPosCallback
    \/ ScrollCallback
    \/ MouseUpdate

MouseSpec == GpuInit /\ [][MouseNext]_vars

----------------------------------------------------------------------------
(* The mouse's accumulators *)

RECURSIVE SumOffsets(_)
\* The sum of the offsets, added in the order received.
SumOffsets(offsets) ==
    IF offsets = <<>> THEN <<0, 0>>
    ELSE <<SumOffsets(SubSeq(offsets, 1, Len(offsets) - 1))[1]
               + offsets[Len(offsets)][1],
           SumOffsets(SubSeq(offsets, 1, Len(offsets) - 1))[2]
               + offsets[Len(offsets)][2]>>

\* C25: the scroll value of the mouse is the sum of all scroll offsets
\* received since the last update(); update() resets the scroll to (0, 0),
\* makes the delta (0, 0) by storing the current position as the last one,
\* and leaves the button states and the current position as they were.
C25_ScrollAccumulatesUntilUpdate ==
    /\ [](scroll(mouse) = SumOffsets(scroll_offsets))
    /\ [][ last_op' = "mouse.update" =>
             /\ scroll(mouse') = <<0, 0>>
             /\ delta(mouse') = <<0, 0>>
             /\ <<mouse'._last_x, mouse'._last_y>>
                    = <<mouse._current_x, mouse._current_y>>
             /\ <<mouse'._current_x, mouse'._current_y>>
                    = <<mouse._current_x, mouse._current_y>>
             /\ mouse'._button_pressed = mouse._button_pressed
         ]_vars

\* C25 witness: the cursor moved and a button went down before an update,
\* which stored the position and kept the button; three offsets have
\* arrived since, and the scroll is their sum.
C25_Witness ==
    /\ <<mouse._last_x, mouse._last_y>> = <<10, 20>>
    /\ delta(mouse) = <<0, 0>>
    /\ is_dragging(mouse, "LEFT")
    /\ scroll_offsets = << <<0, 1>>, <<2, 0>>, <<0, -3>> >>
    /\ scroll(mouse) = <<2, -2>>

----------------------------------------------------------------------------
(* The orbit read back *)

\* The floats x and y differ by at most 1e-4.
Within(x, y) == ~QLess(Q(1, 10000), QAbs(QSub(x, y)))

\* C26: after set_orbit(a, e, d) with a in (-180, 180), e in (-89, 89) and
\* d > 0.01, get_orbit() returns an azimuth, an elevation and a distance
\* each within 1e-4 of a, e and d, wherever the target is.
C26_OrbitRoundTrip ==
    [][ /\ last_op' = "camera_3d.set_orbit"
        /\ QLess(QAbs(camera_calls'[1].args[1]), Float(180))
        /\ QLess(QAbs(camera_calls'[1].args[2]), Float(89))
        /\ QLess(Q(1, 100), camera_calls'[1].args[3])
        => /\ Within(get_orbit(camera_3d')[1], camera_calls'[1].args[1])
           /\ Within(get_orbit(camera_3d')[2], camera_calls'[1].args[2])
           /\ Within(get_orbit(camera_3d')[3], camera_calls'[1].args[3])
      ]_vars

----------------------------------------------------------------------------
(* The orbit of a left drag *)

\* The calls of set_orbit among the calls of the frame.
OrbitCalls(calls) == { i \in 1..Len(calls) : calls[i].fn = "set_orbit" }

\* The first call of the frame is set_orbit with the azimuth get_orbit gave
\* less dx times the orbit sensitivity, the clamped elevation and the
\* distance get_orbit gave.
OrbitCallOfDrag ==
    /\ camera_calls' # <<>>
    /\ camera_calls'[1].fn = "set_orbit"
    /\ camera_calls'[1].args =
          << QSub(get_orbit(camera_3d)[1],
                  QMul(Float(delta(polled'.mouse)[1]),
                       controller'._orbit_sensitivity)),
             Clamped(QAdd(get_orbit(camera_3d)[2],
                          QMul(Float(delta(polled'.mouse)[2]),
                               controller'._orbit_sensitivity)),
                     Float(-89), Float(89)),
             get_orbit(camera_3d)[3] >>

\* C27 as stated: in a 3D update with the left button dragging set_orbit is
\* called once in the frame, with the azimuth less dx times the orbit
\* sensitivity, the clamped elevation and the distance as get_orbit gave
\* it, whatever other buttons are held and whatever the scroll.
C27_OrbitOncePerFrame ==
    [][ Updated3D /\ is_dragging(polled'.mouse, "LEFT") =>
          /\ OrbitCallOfDrag
          /\ Cardinality(OrbitCalls(camera_calls')) = 1
      ]_vars

\* C27 amended: in a 3D update with the left button dragging the first call
\* of the frame is set_orbit with the azimuth less dx times the orbit
\* sensitivity, the clamped elevation and the distance as get_orbit gave
\* it, whatever other buttons are held and whatever the scroll; it is the
\* only set_orbit of the frame when the scroll is 0, and when it is not
\* there is a second set_orbit, the last call of the frame.
C27_OrbitFirstCall ==
    [][ Updated3D /\ is_dragging(polled'.mouse, "LEFT") =>
          /\ OrbitCallOfDrag
          /\ scroll(polled'.mouse)[2] = 0 =>
                OrbitCalls(camera_calls') = {1}
          /\ scroll(polled'.mouse)[2] # 0 =>
                /\ OrbitCalls(camera_calls') = {1, Len(camera_calls')}
                /\ Len(camera_calls') > 1
      ]_vars

\* C27 witness: the left and the middle button dragged by (180, 100) with a
\* scroll of 10 in one 3D frame: set_orbit with the distance 5 the camera
\* had, translate, and the set_orbit of the scroll.
C27_Witness ==
    /\ last_op = "App._update" /\ controller._enabled /\ polled.use_3d_camera
    /\ is_dragging(polled.mouse, "LEFT") /\ is_dragging(polled.mouse, "MIDDLE")
    /\ scroll(polled.mouse)[2] = 10
    /\ Len(camera_calls) = 3
    /\ camera_calls[1].fn = "set_orbit"
    /\ camera_calls[1].args = <<Float(-90), Float(50), Float(5)>>
    /\ camera_calls[2].fn = "translate"
    /\ camera_calls[3].fn = "set_orbit"

----------------------------------------------------------------------------
(* The frames of the main loop *)

\* C28: in the frame loop no movement and no scroll offset waits between
\* two frames, so that what a frame's CameraController.update reads is the
\* movement and the offset polled in that frame and nothing polled before;
\* a frame whose controller is disabled makes no call on a camera and
\* changes neither, and its MouseController.update discards what it polled
\* as that of an enabled frame does.
C28_InputAppliedInItsFrame ==
    /\ [](Running => delta(mouse) = <<0, 0>> /\ scroll(mouse) = <<0, 0>>)
    /\ [][ last_op' = "App._update" =>
             /\ delta(polled'.mouse)
                    = << polled'.mouse._current_x - mouse._current_x,
                         polled'.mouse._current_y - mouse._current_y >>
             /\ scroll(polled'.mouse)
                    = << polled'.mouse._scroll_x - mouse._scroll_x,
                         polled'.mouse._scroll_y - mouse._scroll_y >>
             /\ scroll(mouse) = <<0, 0>>
             /\ ~controller'._enabled =>
                    /\ camera_calls' = <<>>
                    /\ camera_2d' = camera_2d /\ camera_3d' = camera_3d
             /\ ~raised' =>
                    /\ delta(mouse') = <<0, 0>> /\ scroll(mouse') = <<0, 0>>
                    /\ <<mouse'._current_x, mouse'._current_y>>
                           = <<polled'.mouse._current_x, polled'.mouse._current_y>>
         ]_vars

\* C28 witness: a frame whose controller was disabled polled a drag by
\* (180, 100) and a scroll; the next frame, enabled, polled a left drag by
\* (0, 20) and its one call is set_orbit from the orbit the camera had
\* before both, by the 20 only; the 2D camera is as constructed.
C28_Witness ==
    /\ last_op = "App._update" /\ steps = 2 /\ controller._enabled
    /\ polled.use_3d_camera
    /\ <<polled.mouse._last_x, polled.mouse._last_y>> = <<180, 100>>
    /\ delta(polled.mouse) = <<0, 20>> /\ scroll(polled.mouse) = <<0, 0>>
    /\ is_dragging(polled.mouse, "LEFT")
    /\ camera_calls = <<[fn |-> "set_orbit",
                         args |-> <<Float(0), Float(10), Float(5)>>]>>
    /\ camera_3d._target = Vec3(Float(0), Float(0), Float(0))
    /\ camera_2d = Camera2D(800, 600)

----------------------------------------------------------------------------
(* The buffers of the GL context *)

\* The renderer and the two geometries, each with the handles it holds.
BufferOwners == << Self, point_geometry, rectangle_geometry >>

\* The handles of kind f that the owners hold.
HandlesHeld(f) == { BufferOwners[i][f] : i \in 1..3 } \ {0}

\* The number of handles of kind f that the owners hold.
HeldCount(f) == Cardinality({ i \in 1..3 : BufferOwners[i][f] # 0 })

\* The object whose method the operation op is.
OwnerOf(op) ==
    CASE op \in {"point.add_point", "point.clear", "point.cleanup"} -> 2
      [] op \in {"rectangle.set_size", "rectangle.set_color",
                 "rectangle.cleanup"} -> 3
      [] OTHER -> 1

\* The positions in calls of the calls to fn.
CallsOf(calls, fn) == { i \in 1..Len(calls) : calls[i].fn = fn }

\* In calls the name n is deleted by fn before position i.
DeletedBefore(calls, fn, n, i) ==
    \E j \in 1..(i - 1) : calls[j].fn = fn /\ calls[j].n = n

----------------------------------------------------------------------------
(* What flush() draws *)

\* Every queued batch was added with an index array; none was.
AllIndexed == added # <<>> /\ \A i \in 1..Len(added) : added[i].indices.some
NoneIndexed == \A i \in 1..Len(added) : ~added[i].indices.some

\* The sum of the index counts of the queued batches, all indexed.
SumIndexCounts == SumSeq([ i \in 1..Len(added) |-> Len(added[i].indices.val) ])

\* The sum of the vertex counts of the queued batches.
SumVertexCounts == VerticesBefore(Len(added) + 1)

\* A flush() with nothing queued draws nothing, and a flush() draws once at
\* most.
NoStaleDraw ==
    last_op = "flush" =>
        /\ Len(DrawCalls) <= 1
        /\ added = <<>> => DrawCalls = <<>>

\* C30 as stated: after any add, clear, build and flush, a flush() with
\* nothing queued draws nothing, and the draw of a flush() whose queued
\* batches are all indexed counts the sum of their index counts, that of a
\* flush() whose batches are all without indices the sum of their vertex
\* counts.
C30_FlushDrawsQueue_Claimed ==
    /\ NoStaleDraw
    /\ (last_op = "flush" /\ DrawCalls # <<>>) =>
          /\ AllIndexed => DrawCalls[1].n = SumIndexCounts
          /\ NoneIndexed => DrawCalls[1].n = SumVertexCounts

\* C30 amended: after any add, clear, build and flush, a flush() with
\* nothing queued draws nothing; the draw of a flush() whose queued batches
\* are all indexed is glDrawElements over the sum of their index counts
\* when that sum is not 0, and glDrawArrays over the sum of their vertex
\* counts when every index array is empty; the draw of a flush() whose
\* batches are all without indices is glDrawArrays over the sum of their
\* vertex counts.
C30_FlushDrawsQueue ==
    /\ NoStaleDraw
    /\ (last_op = "flush" /\ DrawCalls # <<>>) =>
          /\ (AllIndexed /\ SumIndexCounts > 0) =>
                /\ DrawCalls[1].fn = "glDrawElements"
                /\ DrawCalls[1].n = SumIndexCounts
          /\ (NoneIndexed \/ (AllIndexed /\ SumIndexCounts = 0)) =>
                /\ DrawCalls[1].fn = "glDrawArrays"
                /\ DrawCalls[1].n = SumVertexCounts

\* C30 witness: a flush() that found the renderer built drew the six
\* indices of the two indexed triangles queued.
C30_Witness ==
    /\ last_op = "flush" /\ ~Rebuilt
    /\ Len(added) = 2 /\ AllIndexed
    /\ SumIndexCounts = 6
    /\ DrawCalls = <<Call("glDrawElements", _primitive_type, 6, <<>>)>>

====
